---- MODULE Spec2Model ----
(***************************************************************************)
(* Authentication and access-control core of the project-management        *)
(* service: token issuance and verification (core/security.py,             *)
(* utils/auth.py), identity resolution (core/dependencies.py), user        *)
(* activation (services/user.py), project membership and the project and   *)
(* task access evaluators (services/project.py, services/task.py,          *)
(* core/dependencies.py).                                                  *)
(*                                                                         *)
(* Conventions.                                                            *)
(*  - The clock `now` counts half seconds, so that an instant that is not  *)
(*    on a whole second exists.  JWT "exp" claims are whole seconds: the   *)
(*    JWT libraries encode a datetime with timegm(utctimetuple()).         *)
(*  - `tz` is the offset (seconds) of the server's local time zone from    *)
(*    UTC: datetime.fromtimestamp() yields local time, datetime.utcnow()   *)
(*    yields UTC, and the decoders compare the one with the other.         *)
(*  - ORM column naming (User.name / username, password / password_hash)   *)
(*    is storage-layer detail and is not modelled; the control flow of     *)
(*    every handler is.                                                    *)
(***************************************************************************)
EXTENDS Integers, FiniteSets, Sequences, TLC

\* ---------------------------------------------------------------- bounds
MaxUsers == 2
MaxNow == 4
AccessTTL == 1
RefreshTTL == 3
TzShift == 2

MaxWorkers == 2

\* ------------------------------------------------------------- constants
\* Python None: for a string, for an Optional[int] id, for anything else
NoneStr == "None"
NoId == 0
NoneVal == <<>>
Some(v) == <<v>>

UserIds == 1..MaxUsers

\* request handlers that run at the same time, each with its own session
Workers == 1..MaxWorkers

UserRole == {"admin", "manager", "developer", "tester", "guest",
             "contributor", "viewer"}

TzOffsets == {0 - TzShift, 0, TzShift}

VARIABLES
    now,        \* wall clock (UTC), in half seconds
    tz,         \* local time zone offset of the server, in seconds
    users,      \* users table: id -> row, for the ids that exist
    tokens,     \* the token pair the client holds: access_token, refresh_token
    lastAuth    \* outcome of the verification / resolution just performed

tokenVars == <<now, tz, users, tokens, lastAuth>>

VARIABLES
    projects,     \* projects table: id -> row
    members,      \* project_members table: a set of rows
    memberSeq,    \* last value of the project_members.id sequence
    tasks,        \* tasks table: id -> row
    assignments,  \* task_assignments table: a set of rows
    lastOp,       \* the service call just performed and its outcome
    txns          \* the service calls in flight: worker -> transaction

VARIABLES
    calendars,    \* calendars table: id -> row, for the rows that exist
    calendarSeq,  \* last value of the calendars.id sequence
    events,       \* events table: id -> row, for the rows that exist
    eventSeq,     \* last value of the events.id sequence
    attendees,    \* event_attendees table: a set of rows
    attendeeSeq   \* last value of the event_attendees.id sequence

calVars == <<calendars, calendarSeq, events, eventSeq, attendees, attendeeSeq>>

dbVars == <<projects, members, memberSeq, tasks, assignments, lastOp, txns,
            calendars, calendarSeq, events, eventSeq, attendees, attendeeSeq>>

vars == <<now, tz, users, tokens, lastAuth,
          projects, members, memberSeq, tasks, assignments, lastOp, txns,
          calendars, calendarSeq, events, eventSeq, attendees,
          attendeeSeq>>

\* ------------------------------------------------------- time conversion
\* timegm(datetime.utcnow().utctimetuple()): whole seconds, fraction dropped
Sec(t) == t \div 2

\* a subject is Union[str, int]: the value with its Python type
IntVal(n) == <<"int", n>>
StrVal(s) == <<"str", s>>

\* str(subject) and int(token_data.sub)
StrOf(v) == IF v[1] = "int" THEN ToString(v[2]) ELSE v[2]
IntOf(s) == CHOOSE n \in 0..(MaxUsers + 1) : ToString(n) = s

\* ------------------------------------------------------ token issuance
\* core/security.py create_access_token: claims exp, iat, sub, token_type, scopes
create_access_token(subject, delta, t) ==
    [sub |-> StrOf(subject), token_type |-> "access",
     user_id |-> NoId, type |-> NoneStr,
     exp |-> Sec(t) + delta, signed |-> TRUE]

\* core/security.py create_refresh_token
create_refresh_token(subject, t) ==
    [sub |-> StrOf(subject), token_type |-> "refresh",
     user_id |-> NoId, type |-> NoneStr,
     exp |-> Sec(t) + RefreshTTL, signed |-> TRUE]

\* utils/auth.py create_access_token: data + {"exp", "type": "access"}
utils_create_access_token(data, t) ==
    [sub |-> NoneStr, token_type |-> NoneStr,
     user_id |-> data.user_id, type |-> "access",
     exp |-> Sec(t) + AccessTTL, signed |-> TRUE]

\* utils/auth.py create_refresh_token: data + {"exp", "type": "refresh"}
utils_create_refresh_token(data, t) ==
    [sub |-> NoneStr, token_type |-> NoneStr,
     user_id |-> data.user_id, type |-> "refresh",
     exp |-> Sec(t) + RefreshTTL, signed |-> TRUE]

\* utils/auth.py create_tokens_for_user: the pair that login returns
create_tokens_for_user(uid, t) ==
    [access_token |-> utils_create_access_token([user_id |-> uid], t),
     refresh_token |-> utils_create_refresh_token([user_id |-> uid], t)]

\* --------------------------------------------------- token verification
\* jose.jwt.decode as called by core/security.py: signature, then "exp"
\* (python-jose raises ExpiredSignatureError when exp < now in whole seconds)
JoseDecode(tok, t) ==
    IF ~tok.signed THEN "JWTError"
    ELSE IF tok.exp < Sec(t) THEN "ExpiredSignatureError"
    ELSE "ok"

\* jwt.decode (PyJWT) as called by utils/auth.py: signature, then "exp"
\* (PyJWT raises ExpiredSignatureError when exp <= now)
PyJwtDecode(tok, t) ==
    IF ~tok.signed THEN "InvalidTokenError"
    ELSE IF 2 * tok.exp <= t THEN "ExpiredSignatureError"
    ELSE "ok"

Failure(e) == [ok |-> FALSE, err |-> e, sub |-> NoneStr, user_id |-> NoId]
Claims(s, uid) == [ok |-> TRUE, err |-> NoneStr, sub |-> s, user_id |-> uid]

\* datetime.utcnow() > datetime.fromtimestamp(exp): UTC against local time
LocalExpired(tok, t, off) == t > 2 * (tok.exp + off)

\* decode_access_token without the token_type comparison
decode_access_token_notype(tok, t, off) ==
    IF JoseDecode(tok, t) # "ok" THEN Failure("JWTError")
    ELSE IF LocalExpired(tok, t, off) THEN Failure("JWTError")
    ELSE Claims(tok.sub, NoId)

\* core/security.py decode_access_token; every failure leaves as JWTError
decode_access_token(tok, t, off) ==
    IF JoseDecode(tok, t) # "ok" THEN Failure("JWTError")
    ELSE IF tok.token_type # "access" THEN Failure("JWTError")
    ELSE IF LocalExpired(tok, t, off) THEN Failure("JWTError")
    ELSE Claims(tok.sub, NoId)

\* decode_refresh_token with single-use refresh tokens: the token that the
\* refresh just performed consumed no longer verifies
decode_refresh_token_singleuse(tok, t, off) ==
    IF /\ lastAuth.op = "refresh_access_token"
       /\ lastAuth.ok
       /\ lastAuth.cred = Some(tok)
    THEN Failure("JWTError")
    ELSE IF JoseDecode(tok, t) # "ok" THEN Failure("JWTError")
    ELSE IF tok.token_type # "refresh" THEN Failure("JWTError")
    ELSE IF LocalExpired(tok, t, off) THEN Failure("JWTError")
    ELSE Claims(tok.sub, NoId)

\* core/security.py decode_refresh_token
decode_refresh_token(tok, t, off) ==
    IF JoseDecode(tok, t) # "ok" THEN Failure("JWTError")
    ELSE IF tok.token_type # "refresh" THEN Failure("JWTError")
    ELSE IF LocalExpired(tok, t, off) THEN Failure("JWTError")
    ELSE Claims(tok.sub, NoId)

\* utils/auth.py verify_token: TokenData or None, never an exception
verify_token(tok, token_type, t) ==
    IF PyJwtDecode(tok, t) # "ok" THEN Failure(NoneStr)
    ELSE IF tok.type # token_type THEN Failure(NoneStr)
    ELSE IF tok.user_id = NoId THEN Failure(NoneStr)
    ELSE Claims(NoneStr, tok.user_id)

\* core/security.py refresh_access_token: a new access token, or JWTError
refresh_access_token(tok, t, off) ==
    LET token_data == decode_refresh_token(tok, t, off) IN
    IF ~token_data.ok THEN [ok |-> FALSE, err |-> "JWTError", minted |-> NoneVal]
    ELSE IF token_data.sub = NoneStr
         THEN [ok |-> FALSE, err |-> "JWTError", minted |-> NoneVal]
    ELSE [ok |-> TRUE, err |-> NoneStr,
          minted |-> Some(create_access_token(StrVal(token_data.sub), AccessTTL, t))]

\* ------------------------------------------------- identity resolution
\* User.update_last_active(): stamps the row with the current time
update_last_active(row, t) == [row EXCEPT !.last_active = Some(Sec(t))]

Return(uid) == [user |-> uid, raised |-> NoneStr]
Raise(e) == [user |-> NoId, raised |-> e]

\* core/dependencies.py get_current_user, the statements inside its try
get_current_user_try(cred, t, off, U) ==
    IF cred = NoneVal THEN Return(NoId)
    ELSE LET token_data == decode_access_token(cred[1], t, off) IN
         IF ~token_data.ok THEN Raise(token_data.err)
         ELSE IF token_data.sub = NoneStr THEN Raise("ValueError")
         ELSE LET uid == IntOf(token_data.sub) IN
              IF uid \notin DOMAIN U THEN Return(NoId)
              ELSE IF ~U[uid].is_active THEN Return(NoId)
              ELSE Return(uid)

\* get_current_user without the is_active test
get_current_user_noactive(cred, t, off, U) ==
    IF cred = NoneVal THEN Return(NoId)
    ELSE LET token_data == decode_access_token(cred[1], t, off) IN
         IF ~token_data.ok THEN Return(NoId)
         ELSE IF token_data.sub = NoneStr THEN Return(NoId)
         ELSE LET uid == IntOf(token_data.sub) IN
              IF uid \notin DOMAIN U THEN Return(NoId)
              ELSE Return(uid)

\* core/dependencies.py get_current_user: the user id, or None; "except
\* Exception" turns whatever the try raises into None
get_current_user(cred, t, off, U) ==
    LET r == get_current_user_try(cred, t, off, U) IN
    IF r.raised # NoneStr THEN Return(NoId) ELSE r

\* core/dependencies.py get_current_active_user: 401 when there is no identity
get_current_active_user(current_user) ==
    IF current_user = NoId THEN 401 ELSE 200

\* ----------------------------------------------------------- token spec
NoAuth == [op |-> NoneStr, expected |-> NoneStr, cred |-> NoneVal, ok |-> FALSE,
           err |-> NoneStr, sub |-> NoneStr, user |-> NoId, minted |-> NoneVal,
           http |-> NoId]

\* what a client can present: a token it was issued, or one it tampered
\* with (the signature no longer matches)
Held == {tokens[f][1] : f \in {f \in DOMAIN tokens : tokens[f] # NoneVal}}

Presentable == Held \cup {[k EXCEPT !.signed = FALSE] : k \in Held}

NoOp == [op |-> NoneStr, user |-> NoId, project |-> NoId, task |-> NoId,
         calendar |-> NoId, event |-> NoId, user_ids |-> <<>>,
         calendar_before |-> NoneVal, event_before |-> NoneVal,
         attendees_before |-> {}, listed |-> {}, assignees |-> {},
         assignments_before |-> {},
         target |-> NoId, role |-> NoneStr, result |-> NoneStr,
         granted |-> FALSE, members_before |-> {}]

\* a worker with no call in flight
Idle == [op |-> NoneStr, pc |-> "idle", user |-> NoId, project |-> NoId,
         event |-> NoId, target |-> NoId, role |-> NoneStr,
         is_public |-> FALSE, row |-> NoneVal]

\* no project, membership, task or assignment row, no call in flight
EmptyDb ==
    /\ projects = <<>>
    /\ members = {}
    /\ memberSeq = 0
    /\ tasks = <<>>
    /\ assignments = {}
    /\ lastOp = NoOp
    /\ txns = [w \in Workers |-> Idle]
    /\ calendars = <<>>
    /\ calendarSeq = 0
    /\ events = <<>>
    /\ eventSeq = 0
    /\ attendees = {}
    /\ attendeeSeq = 0

NewUser(role) == [is_active |-> TRUE, role |-> role, last_active |-> NoneVal]

Exists(u) == u \in DOMAIN users

SetUser(u, row) == [x \in DOMAIN users \cup {u} |-> IF x = u THEN row ELSE users[x]]

\* users table of the token specification: every id registered and active
TokenInit ==
    /\ now = 0
    /\ tz \in TzOffsets
    /\ users = [u \in UserIds |-> NewUser("developer")]
    /\ tokens = [access_token |-> NoneVal, refresh_token |-> NoneVal]
    /\ lastAuth = NoAuth
    /\ EmptyDb

\* an empty users table
AuthInit ==
    /\ now = 0
    /\ tz \in TzOffsets
    /\ users = [u \in {} |-> NewUser("developer")]
    /\ tokens = [access_token |-> NoneVal, refresh_token |-> NoneVal]
    /\ lastAuth = NoAuth
    /\ EmptyDb

\* the clock advances by half a second
Tick ==
    /\ now < MaxNow
    /\ now' = now + 1
    /\ lastAuth' = NoAuth
    /\ UNCHANGED <<tz, users, tokens>>
    /\ UNCHANGED dbVars

\* api/auth.py register: a new active DEVELOPER
Register(u) ==
    /\ ~Exists(u)
    /\ users' = SetUser(u, NewUser("developer"))
    /\ lastAuth' = NoAuth
    /\ UNCHANGED <<now, tz, tokens>>
    /\ UNCHANGED dbVars

\* services/user.py deactivate_user
deactivate_user(u) ==
    /\ Exists(u)
    /\ users' = [users EXCEPT ![u].is_active = FALSE]
    /\ lastAuth' = NoAuth
    /\ UNCHANGED <<now, tz, tokens>>
    /\ UNCHANGED dbVars

\* services/user.py activate_user
activate_user(u) ==
    /\ Exists(u)
    /\ users' = [users EXCEPT ![u].is_active = TRUE]
    /\ lastAuth' = NoAuth
    /\ UNCHANGED <<now, tz, tokens>>
    /\ UNCHANGED dbVars

\* services/user.py delete_user: a soft delete, the row stays
delete_user(u) ==
    /\ Exists(u)
    /\ users' = [users EXCEPT ![u].is_active = FALSE]
    /\ lastAuth' = NoAuth
    /\ UNCHANGED <<now, tz, tokens>>
    /\ UNCHANGED dbVars

\* core/security.py create_token_pair(user_id)
CreateTokenPair(s) ==
    /\ tokens' = [access_token |-> Some(create_access_token(IntVal(s), AccessTTL, now)),
                  refresh_token |-> Some(create_refresh_token(IntVal(s), now))]
    /\ lastAuth' = NoAuth
    /\ UNCHANGED <<now, tz, users>>
    /\ UNCHANGED dbVars

\* utils/auth.py create_tokens_for_user(user), as AuthManager.create_tokens
CreateTokensForUser(u) ==
    /\ Exists(u)
    /\ LET pair == create_tokens_for_user(u, now) IN
       tokens' = [access_token |-> Some(pair.access_token),
                  refresh_token |-> Some(pair.refresh_token)]
    /\ lastAuth' = NoAuth
    /\ UNCHANGED <<now, tz, users>>
    /\ UNCHANGED dbVars

\* api/auth.py login: credentials of an active user, then
\* AuthManager.create_tokens -> create_tokens_for_user
Login(u) ==
    /\ Exists(u)
    /\ users[u].is_active
    /\ LET pair == create_tokens_for_user(u, now) IN
       tokens' = [access_token |-> Some(pair.access_token),
                  refresh_token |-> Some(pair.refresh_token)]
    /\ lastAuth' = NoAuth
    /\ UNCHANGED <<now, tz, users>>
    /\ UNCHANGED dbVars

\* the client drops a token (logout is client-side only)
Discard(f) ==
    /\ tokens[f] # NoneVal
    /\ tokens' = [tokens EXCEPT ![f] = NoneVal]
    /\ lastAuth' = NoAuth
    /\ UNCHANGED <<now, tz, users>>
    /\ UNCHANGED dbVars

DecodeAccess(p) ==
    /\ LET r == decode_access_token(p, now, tz) IN
       lastAuth' = [NoAuth EXCEPT !.op = "decode_access_token",
                    !.expected = "access", !.cred = Some(p), !.ok = r.ok,
                    !.err = r.err, !.sub = r.sub]
    /\ UNCHANGED <<now, tz, users, tokens>>
    /\ UNCHANGED dbVars

DecodeRefresh(p) ==
    /\ LET r == decode_refresh_token(p, now, tz) IN
       lastAuth' = [NoAuth EXCEPT !.op = "decode_refresh_token",
                    !.expected = "refresh", !.cred = Some(p), !.ok = r.ok,
                    !.err = r.err, !.sub = r.sub]
    /\ UNCHANGED <<now, tz, users, tokens>>
    /\ UNCHANGED dbVars

VerifyToken(p, token_type) ==
    /\ LET r == verify_token(p, token_type, now) IN
       lastAuth' = [NoAuth EXCEPT !.op = "verify_token",
                    !.expected = token_type, !.cred = Some(p), !.ok = r.ok,
                    !.err = r.err, !.user = r.user_id]
    /\ UNCHANGED <<now, tz, users, tokens>>
    /\ UNCHANGED dbVars

\* POST /auth/refresh through refresh_access_token
RefreshAccessToken(p) ==
    LET r == refresh_access_token(p, now, tz) IN
    /\ tokens' = IF r.ok THEN [tokens EXCEPT !.access_token = r.minted] ELSE tokens
    /\ lastAuth' = [NoAuth EXCEPT !.op = "refresh_access_token",
                    !.expected = "refresh", !.cred = Some(p), !.ok = r.ok,
                    !.err = r.err, !.minted = r.minted]
    /\ UNCHANGED <<now, tz, users>>
    /\ UNCHANGED dbVars

\* GET /auth/me: get_current_active_user over get_current_user
GetCurrentUser(cred) ==
    LET r == get_current_user(cred, now, tz, users) IN
    /\ users' = IF r.user = NoId THEN users
                ELSE [users EXCEPT ![r.user] = update_last_active(@, now)]
    /\ lastAuth' = [NoAuth EXCEPT !.op = "get_current_user",
                    !.expected = "access", !.cred = cred, !.ok = (r.user # NoId),
                    !.err = r.raised,
                    !.user = r.user, !.http = get_current_active_user(r.user)]
    /\ UNCHANGED <<now, tz, tokens>>
    /\ UNCHANGED dbVars

TokenNext ==
    \/ Tick
    \/ \E s \in UserIds : CreateTokenPair(s)
    \/ \E u \in UserIds : CreateTokensForUser(u)
    \/ \E f \in DOMAIN tokens : Discard(f)
    \/ \E p \in Presentable : DecodeAccess(p)
    \/ \E p \in Presentable : DecodeRefresh(p)
    \/ \E p \in Presentable : \E ty \in {"access", "refresh"} : VerifyToken(p, ty)
    \/ \E p \in Presentable : RefreshAccessToken(p)
    \/ \E p \in Presentable : GetCurrentUser(Some(p))

SpecToken == TokenInit /\ [][TokenNext]_vars

AuthNext ==
    \/ Tick
    \/ \E u \in UserIds : Register(u)
    \/ \E u \in UserIds : deactivate_user(u)
    \/ \E u \in UserIds : activate_user(u)
    \/ \E u \in UserIds : delete_user(u)
    \/ \E s \in UserIds : CreateTokenPair(s)
    \/ \E u \in UserIds : Login(u)
    \/ \E p \in Presentable : GetCurrentUser(Some(p))
    \/ GetCurrentUser(NoneVal)

SpecAuth == AuthInit /\ [][AuthNext]_vars

\* ------------------------------------------------ token claims (C1-C4)
\* the type tag the issuer embedded ("token_type" in core/security.py,
\* "type" in utils/auth.py)
MintedAs(k) == IF k.token_type # NoneStr THEN k.token_type ELSE k.type

\* the user a token was minted for
SubjectOf(k) == IF k.user_id # NoId THEN k.user_id ELSE IntOf(k.sub)

\* C1: a token minted with one type tag is never accepted by a verification
\* that expects the other type (decode_access_token, decode_refresh_token,
\* verify_token, refresh_access_token, get_current_user).
C1_NoTypeConfusion ==
    (lastAuth.cred # NoneVal /\ MintedAs(lastAuth.cred[1]) # lastAuth.expected)
        => ~lastAuth.ok

\* a correctly signed, unexpired refresh token of an active user was
\* presented to GET /auth/me and answered 401
C1_Witness ==
    /\ lastAuth.op = "get_current_user"
    /\ lastAuth.cred # NoneVal
    /\ lastAuth.cred[1].signed
    /\ MintedAs(lastAuth.cred[1]) = "refresh"
    /\ lastAuth.cred[1].token_type = "refresh"
    /\ now < 2 * lastAuth.cred[1].exp
    /\ users[SubjectOf(lastAuth.cred[1])].is_active
    /\ lastAuth.http = 401

\* C2: a token whose exp is at or before the time of verification is
\* rejected, the boundary exp = now included, whatever its signature.
C2_RejectsAtExpiry ==
    (lastAuth.cred # NoneVal /\ 2 * lastAuth.cred[1].exp <= now) => ~lastAuth.ok

\* C3: an access token minted for an existing, active user (by
\* create_access_token or by login's create_tokens_for_user), presented
\* before its expiry, resolves to that user and GET /auth/me answers 200.
C3_AccessTokenResolves ==
    (/\ lastAuth.op = "get_current_user"
     /\ lastAuth.cred # NoneVal
     /\ lastAuth.cred[1].signed
     /\ MintedAs(lastAuth.cred[1]) = "access"
     /\ now < 2 * lastAuth.cred[1].exp
     /\ SubjectOf(lastAuth.cred[1]) \in DOMAIN users
     /\ users[SubjectOf(lastAuth.cred[1])].is_active)
        => (lastAuth.user = SubjectOf(lastAuth.cred[1]) /\ lastAuth.http = 200)

MaxProjects == 1
MaxRows == 3

ProjectIds == 1..MaxProjects

\* roles ProjectMemberCreate accepts
ProjectMemberRole == {"owner", "manager", "developer", "reviewer", "viewer"}

\* utils/exceptions.py: status_code of each service error
status_code(e) ==
    CASE e = "ValidationError" -> 422
      [] e = "NotFoundError" -> 404
      [] e = "ConflictError" -> 409
      [] e = "AuthenticationError" -> 401
      [] e = "AuthorizationError" -> 403
      [] e = "ok" -> 200
      [] OTHER -> 500

\* User.is_admin(): the user's global role is ADMIN
is_admin(user) == user.role = "admin"

\* select(ProjectMember).where(project_id == .., user_id == ..)
MemberRows(project_id, user_id) ==
    {m \in members : m.project_id = project_id /\ m.user_id = user_id}

\* core/dependencies.py ProjectPermission.check_project_access
ProjectPermission_check_project_access(project_id, current_user) ==
    IF is_admin(users[current_user]) THEN TRUE
    ELSE IF /\ project_id \in DOMAIN projects
            /\ projects[project_id].creator_id = current_user THEN TRUE
    ELSE \E m \in MemberRows(project_id, current_user) : m.is_active

\* services/project.py _check_project_access: the query selects the column
\* Project.is_public, so `project` is that flag (None when no row)
ProjectService_check_project_access(project_id, user_id) ==
    LET project == IF project_id \in DOMAIN projects
                   THEN Some(projects[project_id].is_public) ELSE NoneVal
        truthy == project # NoneVal /\ project[1] IN
    IF ~truthy THEN FALSE
    ELSE IF truthy THEN TRUE
    ELSE MemberRows(project_id, user_id) # {}

\* services/project.py _check_project_permission
ProjectService_check_project_permission(project_id, user_id, required_roles) ==
    LET rows == MemberRows(project_id, user_id) IN
    IF rows = {} THEN FALSE
    ELSE (CHOOSE m \in rows : TRUE).role \in required_roles

\* services/task.py _check_project_access
TaskService_check_project_access(project_id, user_id) ==
    IF project_id \notin DOMAIN projects THEN FALSE
    ELSE IF projects[project_id].is_public THEN TRUE
    ELSE MemberRows(project_id, user_id) # {}

\* ----------------------------------------------------- project handlers
NewMember(id, project_id, user_id, role) ==
    [id |-> id, project_id |-> project_id, user_id |-> user_id, role |-> role,
     is_active |-> TRUE]

\* create_project without the creator's OWNER membership row
create_project_noowner(project_data, creator_id, fails) ==
    LET pid == Len(projects) + 1
        result == IF ~Exists(creator_id) THEN "NotFoundError"
                  ELSE IF fails THEN "SQLAlchemyError"
                  ELSE "ok" IN
    /\ pid <= MaxProjects
    /\ memberSeq < MaxRows
    /\ IF result = "ok"
       THEN projects' = Append(projects,
                               [creator_id |-> creator_id,
                                is_public |-> project_data.is_public,
                                status |-> project_data.status])
       ELSE UNCHANGED projects
    /\ lastOp' = [NoOp EXCEPT !.op = "create_project", !.user = creator_id,
                  !.project = IF result = "ok" THEN pid ELSE NoId,
                  !.result = result]
    /\ UNCHANGED <<members, memberSeq, tasks, assignments>>
    /\ UNCHANGED <<tokenVars, txns, calVars>>

\* services/project.py create_project.  `fails`: the flush or the commit
\* raises; the handler rolls back and nothing of the transaction persists.
create_project(project_data, creator_id, fails) ==
    LET pid == Len(projects) + 1
        result == IF ~Exists(creator_id) THEN "NotFoundError"
                  ELSE IF fails THEN "SQLAlchemyError"
                  ELSE "ok" IN
    /\ pid <= MaxProjects
    /\ memberSeq < MaxRows
    /\ IF result = "ok"
       THEN /\ projects' = Append(projects,
                                  [creator_id |-> creator_id,
                                   is_public |-> project_data.is_public,
                                   status |-> project_data.status])
            /\ members' = members \cup
                          {NewMember(memberSeq + 1, pid, creator_id, "owner")}
            /\ memberSeq' = memberSeq + 1
       ELSE UNCHANGED <<projects, members, memberSeq>>
    /\ lastOp' = [NoOp EXCEPT !.op = "create_project", !.user = creator_id,
                  !.project = IF result = "ok" THEN pid ELSE NoId,
                  !.result = result]
    /\ UNCHANGED <<tasks, assignments>>
    /\ UNCHANGED <<tokenVars, txns, calVars>>

\* services/project.py update_project; project_data carries the fields set
update_project(project_id, project_data, user_id) ==
    LET result ==
          IF ~ProjectService_check_project_permission(project_id, user_id,
                                                      {"owner", "manager"})
          THEN "AuthorizationError"
          ELSE IF project_id \notin DOMAIN projects THEN "NotFoundError"
          ELSE "ok" IN
    /\ IF result = "ok"
       THEN projects' =
              [projects EXCEPT
                 ![project_id].is_public =
                     IF project_data.is_public # NoneVal
                     THEN project_data.is_public[1] ELSE @,
                 ![project_id].status =
                     IF project_data.status # NoneStr
                     THEN project_data.status ELSE @]
       ELSE UNCHANGED projects
    /\ lastOp' = [NoOp EXCEPT !.op = "update_project", !.user = user_id,
                  !.project = project_id, !.result = result,
                  !.members_before = members]
    /\ UNCHANGED <<members, memberSeq, tasks, assignments>>
    /\ UNCHANGED <<tokenVars, txns, calVars>>

\* services/project.py delete_project: a soft delete
delete_project(project_id, user_id) ==
    LET result ==
          IF ~ProjectService_check_project_permission(project_id, user_id,
                                                      {"owner"})
          THEN "AuthorizationError"
          ELSE IF project_id \notin DOMAIN projects THEN "NotFoundError"
          ELSE "ok" IN
    /\ IF result = "ok"
       THEN projects' = [projects EXCEPT ![project_id].status = "cancelled"]
       ELSE UNCHANGED projects
    /\ lastOp' = [NoOp EXCEPT !.op = "delete_project", !.user = user_id,
                  !.project = project_id, !.result = result,
                  !.members_before = members]
    /\ UNCHANGED <<members, memberSeq, tasks, assignments>>
    /\ UNCHANGED <<tokenVars, txns, calVars>>

\* add_project_member without the lookup of an existing membership row
add_project_member_nolookup(project_id, member_data, added_by) ==
    LET result ==
          IF ~ProjectService_check_project_permission(project_id, added_by,
                                                      {"owner", "manager"})
          THEN "AuthorizationError"
          ELSE IF ~Exists(member_data.user_id) THEN "NotFoundError"
          ELSE "ok" IN
    /\ memberSeq < MaxRows
    /\ IF result = "ok"
       THEN /\ members' = members \cup
                          {NewMember(memberSeq + 1, project_id,
                                     member_data.user_id, member_data.role)}
            /\ memberSeq' = memberSeq + 1
       ELSE UNCHANGED <<members, memberSeq>>
    /\ lastOp' = [NoOp EXCEPT !.op = "add_project_member", !.user = added_by,
                  !.project = project_id, !.target = member_data.user_id,
                  !.role = member_data.role, !.result = result,
                  !.members_before = members]
    /\ UNCHANGED <<projects, tasks, assignments>>
    /\ UNCHANGED <<tokenVars, txns, calVars>>

\* services/project.py add_project_member
add_project_member(project_id, member_data, added_by) ==
    LET result ==
          IF ~ProjectService_check_project_permission(project_id, added_by,
                                                      {"owner", "manager"})
          THEN "AuthorizationError"
          ELSE IF MemberRows(project_id, member_data.user_id) # {}
          THEN "ConflictError"
          ELSE IF ~Exists(member_data.user_id) THEN "NotFoundError"
          ELSE "ok" IN
    /\ memberSeq < MaxRows
    /\ IF result = "ok"
       THEN /\ members' = members \cup
                          {NewMember(memberSeq + 1, project_id,
                                     member_data.user_id, member_data.role)}
            /\ memberSeq' = memberSeq + 1
       ELSE UNCHANGED <<members, memberSeq>>
    /\ lastOp' = [NoOp EXCEPT !.op = "add_project_member", !.user = added_by,
                  !.project = project_id, !.target = member_data.user_id,
                  !.role = member_data.role, !.result = result,
                  !.members_before = members]
    /\ UNCHANGED <<projects, tasks, assignments>>
    /\ UNCHANGED <<tokenVars, txns, calVars>>

\* the outcome of remove_project_member and the row it deletes
remove_project_member_noownercheck(project_id, user_id, removed_by) ==
    LET rows == MemberRows(project_id, user_id) IN
    IF ~ProjectService_check_project_permission(project_id, removed_by,
                                                {"owner", "manager"})
    THEN [result |-> "AuthorizationError", deleted |-> {}]
    ELSE IF rows = {} THEN [result |-> "NotFoundError", deleted |-> {}]
    ELSE [result |-> "ok", deleted |-> rows]

\* services/project.py remove_project_member
remove_project_member(project_id, user_id, removed_by) ==
    LET rows == MemberRows(project_id, user_id) IN
    IF ~ProjectService_check_project_permission(project_id, removed_by,
                                                {"owner", "manager"})
    THEN [result |-> "AuthorizationError", deleted |-> {}]
    ELSE IF rows = {} THEN [result |-> "NotFoundError", deleted |-> {}]
    ELSE IF (CHOOSE m \in rows : TRUE).role = "owner"
    THEN [result |-> "ValidationError", deleted |-> {}]
    ELSE [result |-> "ok", deleted |-> rows]

RemoveProjectMember(project_id, user_id, removed_by) ==
    LET r == remove_project_member(project_id, user_id, removed_by)
        rows == MemberRows(project_id, user_id) IN
    /\ members' = members \ r.deleted
    /\ lastOp' = [NoOp EXCEPT !.op = "remove_project_member",
                  !.user = removed_by, !.project = project_id,
                  !.target = user_id,
                  !.role = IF rows = {} THEN NoneStr
                           ELSE (CHOOSE m \in rows : TRUE).role,
                  !.result = r.result, !.members_before = members]
    /\ UNCHANGED <<projects, memberSeq, tasks, assignments>>
    /\ UNCHANGED <<tokenVars, txns, calVars>>

\* services/project.py get_project_by_id
get_project_by_id(project_id, user_id) ==
    LET result ==
          IF project_id \notin DOMAIN projects THEN "NotFoundError"
          ELSE IF /\ ~projects[project_id].is_public
                  /\ user_id # NoId
                  /\ ~ProjectService_check_project_access(project_id, user_id)
          THEN "AuthorizationError"
          ELSE "ok" IN
    /\ lastOp' = [NoOp EXCEPT !.op = "get_project_by_id", !.user = user_id,
                  !.project = project_id, !.result = result]
    /\ UNCHANGED <<projects, members, memberSeq, tasks, assignments>>
    /\ UNCHANGED <<tokenVars, txns, calVars>>

\* the three project read checks, each applied to a user and a project
CheckProjectAccess(project_id, current_user) ==
    /\ lastOp' = [NoOp EXCEPT
                    !.op = "ProjectPermission.check_project_access",
                    !.user = current_user, !.project = project_id,
                    !.granted = ProjectPermission_check_project_access(
                                    project_id, current_user)]
    /\ UNCHANGED <<projects, members, memberSeq, tasks, assignments>>
    /\ UNCHANGED <<tokenVars, txns, calVars>>

ProjectServiceCheckAccess(project_id, user_id) ==
    /\ lastOp' = [NoOp EXCEPT
                    !.op = "ProjectService._check_project_access",
                    !.user = user_id, !.project = project_id,
                    !.granted = ProjectService_check_project_access(
                                    project_id, user_id)]
    /\ UNCHANGED <<projects, members, memberSeq, tasks, assignments>>
    /\ UNCHANGED <<tokenVars, txns, calVars>>

TaskServiceCheckProjectAccess(project_id, user_id) ==
    /\ lastOp' = [NoOp EXCEPT
                    !.op = "TaskService._check_project_access",
                    !.user = user_id, !.project = project_id,
                    !.granted = TaskService_check_project_access(
                                    project_id, user_id)]
    /\ UNCHANGED <<projects, members, memberSeq, tasks, assignments>>
    /\ UNCHANGED <<tokenVars, txns, calVars>>

\* ----------------------------------------------------- project spec
\* request bodies
ProjectCreates == [is_public : BOOLEAN, status : {"planning"}]

ProjectUpdates ==
    {[is_public |-> Some(TRUE), status |-> NoneStr],
     [is_public |-> Some(FALSE), status |-> NoneStr],
     [is_public |-> NoneVal, status |-> "active"]}

MemberCreates == [user_id : 1..(MaxUsers + 1),
                  role : {"owner", "manager", "viewer"}]

\* every user registered and active: DEVELOPERs, and user 1 may be an ADMIN
ProjectInit ==
    /\ now = 0
    /\ tz = 0
    /\ \E r \in {"admin", "developer"} :
          users = [u \in UserIds |-> NewUser(IF u = 1 THEN r ELSE "developer")]
    /\ tokens = [access_token |-> NoneVal, refresh_token |-> NoneVal]
    /\ lastAuth = NoAuth
    /\ EmptyDb

ProjectNext ==
    \/ \E d \in ProjectCreates : \E u \in 1..(MaxUsers + 1) :
          \E fails \in BOOLEAN : create_project(d, u, fails)
    \/ \E p \in ProjectIds : \E d \in ProjectUpdates : \E u \in UserIds :
          update_project(p, d, u)
    \/ \E p \in ProjectIds : \E u \in UserIds : delete_project(p, u)
    \/ \E p \in ProjectIds : \E d \in MemberCreates : \E u \in UserIds :
          add_project_member(p, d, u)
    \/ \E p \in ProjectIds : \E t \in UserIds : \E u \in UserIds :
          RemoveProjectMember(p, t, u)
    \/ \E p \in ProjectIds : \E u \in UserIds \cup {NoId} :
          get_project_by_id(p, u)
    \/ \E p \in ProjectIds : \E u \in UserIds : CheckProjectAccess(p, u)
    \/ \E p \in ProjectIds : \E u \in UserIds : ProjectServiceCheckAccess(p, u)
    \/ \E p \in ProjectIds : \E u \in UserIds :
          TaskServiceCheckProjectAccess(p, u)

SpecProject == ProjectInit /\ [][ProjectNext]_vars

\* ------------------------------------------- project claims (C5-C7, C9)
ProjectReadChecks ==
    {"ProjectPermission.check_project_access",
     "ProjectService._check_project_access",
     "TaskService._check_project_access"}

ManageOps ==
    {"update_project", "add_project_member", "remove_project_member",
     "delete_project"}

\* the active membership rows of user u in project p, among the rows M
ActiveRows(u, p, M) ==
    {m \in M : m.project_id = p /\ m.user_id = u /\ m.is_active}

\* the active OWNER rows of project p, among the rows M
OwnerRows(p, M) ==
    {m \in M : m.project_id = p /\ m.role = "owner" /\ m.is_active}

\* read access as the claims define it
CanRead(u, p) ==
    \/ users[u].role = "admin"
    \/ projects[p].creator_id = u
    \/ ActiveRows(u, p, members) # {}
    \/ projects[p].is_public

\* C5: every project read check grants access to user u on project p
\* exactly when u is ADMIN, or u created p, or u has an active membership
\* row in p, or p is public.
C5_ProjectReadAccess ==
    (lastOp.op \in ProjectReadChecks /\ lastOp.project \in DOMAIN projects) =>
        (lastOp.granted <=> CanRead(lastOp.user, lastOp.project))

\* C6: update_project, add_project_member, remove_project_member and
\* delete_project are rejected with AuthorizationError exactly when the
\* caller is neither ADMIN nor an active OWNER or MANAGER of the project.
C6_ManageGuard ==
    (lastOp.op \in ManageOps /\ lastOp.project \in DOMAIN projects) =>
        (lastOp.result # "AuthorizationError" <=>
            \/ users[lastOp.user].role = "admin"
            \/ \E m \in ActiveRows(lastOp.user, lastOp.project,
                                   lastOp.members_before) :
                  m.role \in {"owner", "manager"})

\* C7: every existing project has exactly one active OWNER membership row.
C7_ExactlyOneOwner ==
    \A p \in DOMAIN projects : Cardinality(OwnerRows(p, members)) = 1

\* remove_project_member was called on the only active OWNER of the project
SoleOwnerTargeted ==
    /\ lastOp.op = "remove_project_member"
    /\ LET owners == OwnerRows(lastOp.project, lastOp.members_before) IN
       /\ Cardinality(owners) = 1
       /\ \A m \in owners : m.user_id = lastOp.target

MaxTasks == 1

TaskIds == 1..MaxTasks

\* select(TaskAssignment).where(task_id, user_id, is_active == True)
ActiveAssignment(task_id, user_id) ==
    \E a \in assignments :
        a.task_id = task_id /\ a.user_id = user_id /\ a.is_active

\* core/dependencies.py TaskPermission.check_task_access
TaskPermission_check_task_access(task_id, current_user) ==
    IF is_admin(users[current_user]) THEN TRUE
    ELSE IF task_id \notin DOMAIN tasks THEN FALSE
    ELSE LET task == tasks[task_id] IN
         IF task.creator_id = NoId THEN FALSE
         ELSE IF task.creator_id = current_user THEN TRUE
         ELSE IF ActiveAssignment(task_id, current_user) THEN TRUE
         ELSE IF task.project_id = NoId THEN FALSE
         ELSE ProjectPermission_check_project_access(task.project_id,
                                                     current_user)

\* services/task.py _check_task_access
TaskService_check_task_access(task_id, user_id) ==
    IF task_id \notin DOMAIN tasks THEN FALSE
    ELSE LET task == tasks[task_id] IN
         IF task.creator_id = NoId THEN FALSE
         ELSE IF task.creator_id = user_id THEN TRUE
         ELSE IF ActiveAssignment(task_id, user_id) THEN TRUE
         ELSE IF task.project_id = NoId THEN FALSE
         ELSE TaskService_check_project_access(task.project_id, user_id)

\* services/task.py _assign_user_to_task for each of user_ids, over the
\* assignment rows A: the rows after the loop, or the error it raises.  A
\* user with an active row is skipped; for any other user a row is inserted,
\* which the constraint uq_task_assignments_task_user (task_id, user_id)
\* refuses when the pair already has a row, active or not.  Rows are never
\* deleted, so the next id is the number of rows plus one.
assign_users(task_id, user_ids, A) ==
    LET rows(u) == {a \in A : a.task_id = task_id /\ a.user_id = u}
        fresh == {u \in user_ids : ~\E a \in rows(u) : a.is_active}
        id(u) == Cardinality(A) + Cardinality({v \in fresh : v <= u}) IN
    IF \E u \in user_ids : ~Exists(u)
    THEN [result |-> "NotFoundError", rows |-> A]
    ELSE IF \E u \in fresh : rows(u) # {}
    THEN [result |-> "IntegrityError", rows |-> A]
    ELSE [result |-> "ok",
          rows |-> A \cup {[id |-> id(u), task_id |-> task_id, user_id |-> u,
                            is_active |-> TRUE] : u \in fresh}]

\* services/task.py create_task
create_task(task_data, creator_id) ==
    LET tid == Len(tasks) + 1
        assigned == assign_users(tid, task_data.assignee_ids, assignments)
        result ==
          IF task_data.project_id \notin DOMAIN projects THEN "NotFoundError"
          ELSE IF ~TaskService_check_project_access(task_data.project_id,
                                                    creator_id)
          THEN "AuthorizationError"
          ELSE assigned.result IN
    /\ tid <= MaxTasks
    /\ IF result = "ok"
       THEN /\ tasks' = Append(tasks, [project_id |-> task_data.project_id,
                                       creator_id |-> creator_id,
                                       status |-> "todo"])
            /\ assignments' = assigned.rows
       ELSE UNCHANGED <<tasks, assignments>>
    /\ lastOp' = [NoOp EXCEPT !.op = "create_task", !.user = creator_id,
                  !.project = task_data.project_id,
                  !.task = IF result = "ok" THEN tid ELSE NoId,
                  !.result = result]
    /\ UNCHANGED <<projects, members, memberSeq>>
    /\ UNCHANGED <<tokenVars, txns, calVars>>

\* services/task.py assign_task: every assignment of the task is made
\* inactive, then the given users are assigned
assign_task(task_id, user_ids, assigned_by) ==
    LET cleared == {IF a.task_id = task_id
                    THEN [a EXCEPT !.is_active = FALSE] ELSE a :
                    a \in assignments}
        assigned == assign_users(task_id, user_ids, cleared)
        result ==
          IF ~TaskService_check_task_access(task_id, assigned_by)
          THEN "AuthorizationError"
          ELSE IF task_id \notin DOMAIN tasks THEN "NotFoundError"
          ELSE assigned.result IN
    /\ assignments' = IF result = "ok" THEN assigned.rows ELSE assignments
    /\ lastOp' = [NoOp EXCEPT !.op = "assign_task", !.user = assigned_by,
                  !.task = task_id, !.assignees = user_ids,
                  !.assignments_before = assignments, !.result = result]
    /\ UNCHANGED <<projects, members, memberSeq, tasks>>
    /\ UNCHANGED <<tokenVars, txns, calVars>>

\* services/task.py delete_task: a soft delete
delete_task(task_id, user_id) ==
    LET result ==
          IF ~TaskService_check_task_access(task_id, user_id)
          THEN "AuthorizationError"
          ELSE IF task_id \notin DOMAIN tasks THEN "NotFoundError"
          ELSE "ok" IN
    /\ tasks' = IF result = "ok"
                THEN [tasks EXCEPT ![task_id].status = "cancelled"] ELSE tasks
    /\ lastOp' = [NoOp EXCEPT !.op = "delete_task", !.user = user_id,
                  !.task = task_id, !.result = result]
    /\ UNCHANGED <<projects, members, memberSeq, assignments>>
    /\ UNCHANGED <<tokenVars, txns, calVars>>

\* services/task.py update_task: guarded by _check_task_access
update_task(task_id, task_data, user_id) ==
    LET result ==
          IF ~TaskService_check_task_access(task_id, user_id)
          THEN "AuthorizationError"
          ELSE IF task_id \notin DOMAIN tasks THEN "NotFoundError"
          ELSE "ok" IN
    /\ tasks' = IF result = "ok"
                THEN [tasks EXCEPT ![task_id].status = task_data.status]
                ELSE tasks
    /\ lastOp' = [NoOp EXCEPT !.op = "update_task", !.user = user_id,
                  !.task = task_id, !.result = result]
    /\ UNCHANGED <<projects, members, memberSeq, assignments>>
    /\ UNCHANGED <<tokenVars, txns, calVars>>

\* services/task.py get_task_by_id
get_task_by_id(task_id, user_id) ==
    LET result ==
          IF task_id \notin DOMAIN tasks THEN "NotFoundError"
          ELSE IF /\ user_id # NoId
                  /\ ~TaskService_check_task_access(task_id, user_id)
          THEN "AuthorizationError"
          ELSE "ok" IN
    /\ lastOp' = [NoOp EXCEPT !.op = "get_task_by_id", !.user = user_id,
                  !.task = task_id, !.result = result]
    /\ UNCHANGED <<projects, members, memberSeq, tasks, assignments>>
    /\ UNCHANGED <<tokenVars, txns, calVars>>

\* the two task access checks, each applied to a user and a task
CheckTaskAccess(task_id, current_user) ==
    /\ lastOp' = [NoOp EXCEPT !.op = "TaskPermission.check_task_access",
                  !.user = current_user, !.task = task_id,
                  !.granted = TaskPermission_check_task_access(task_id,
                                                               current_user)]
    /\ UNCHANGED <<projects, members, memberSeq, tasks, assignments>>
    /\ UNCHANGED <<tokenVars, txns, calVars>>

TaskServiceCheckTaskAccess(task_id, user_id) ==
    /\ lastOp' = [NoOp EXCEPT !.op = "TaskService._check_task_access",
                  !.user = user_id, !.task = task_id,
                  !.granted = TaskService_check_task_access(task_id, user_id)]
    /\ UNCHANGED <<projects, members, memberSeq, tasks, assignments>>
    /\ UNCHANGED <<tokenVars, txns, calVars>>

\* ------------------------------------------------------------ task spec
TaskCreates == [project_id : ProjectIds, assignee_ids : SUBSET UserIds]

TaskNext ==
    \/ \E d \in ProjectCreates : \E u \in UserIds : create_project(d, u, FALSE)
    \/ \E p \in ProjectIds : \E d \in MemberCreates : \E u \in UserIds :
          add_project_member(p, d, u)
    \/ \E d \in TaskCreates : \E u \in UserIds : create_task(d, u)
    \/ \E t \in TaskIds : \E a \in SUBSET (1..(MaxUsers + 1)) :
          \E u \in UserIds : assign_task(t, a, u)
    \/ \E t \in TaskIds : \E u \in UserIds : delete_task(t, u)
    \/ \E t \in TaskIds : \E u \in UserIds \cup {NoId} : get_task_by_id(t, u)
    \/ \E t \in TaskIds : \E u \in UserIds : CheckTaskAccess(t, u)
    \/ \E t \in TaskIds : \E u \in UserIds : TaskServiceCheckTaskAccess(t, u)

SpecTask == ProjectInit /\ [][TaskNext]_vars

\* ---------------------------------------------------- task claim (C10)
TaskChecks ==
    {"TaskPermission.check_task_access", "TaskService._check_task_access"}

\* C10: each task access check grants access to user u on task t exactly
\* when u is ADMIN, or u created t, or u has an active assignment to t, or
\* u has read access to t's project.
C10_TaskAccess ==
    (lastOp.op \in TaskChecks /\ lastOp.task \in DOMAIN tasks) =>
        (lastOp.granted <=>
            \/ users[lastOp.user].role = "admin"
            \/ tasks[lastOp.task].creator_id = lastOp.user
            \/ ActiveAssignment(lastOp.task, lastOp.user)
            \/ CanRead(lastOp.user, tasks[lastOp.task].project_id))

\* ------------------------------------- concurrent membership changes
\* Each worker runs one service call in its own session.  Every SELECT
\* reads the committed tables at the time it is issued (READ COMMITTED);
\* a call writes only in its final flush and commit.

InFlight(ops) == Cardinality({w \in Workers : txns[w].op \in ops})

\* the call of worker w returns or raises: the session is closed
Finish(w, result) ==
    /\ txns' = [txns EXCEPT ![w] = Idle]
    /\ lastOp' = [NoOp EXCEPT !.op = txns[w].op, !.result = result]

\* the target's row remove_project_member goes on to delete
remove_lookup_noownercheck(project_id, user_id) ==
    LET rows == MemberRows(project_id, user_id) IN
    IF rows = {} THEN [result |-> "NotFoundError", row |-> NoneVal]
    ELSE [result |-> "ok", row |-> Some(CHOOSE m \in rows : TRUE)]

\* services/project.py remove_project_member: the SELECT of the target's
\* row and the test of its role
remove_lookup(project_id, user_id) ==
    LET rows == MemberRows(project_id, user_id) IN
    IF rows = {} THEN [result |-> "NotFoundError", row |-> NoneVal]
    ELSE IF (CHOOSE m \in rows : TRUE).role = "owner"
    THEN [result |-> "ValidationError", row |-> NoneVal]
    ELSE [result |-> "ok", row |-> Some(CHOOSE m \in rows : TRUE)]

\* the call starts on worker w with _check_project_permission; the steps
\* after it do not read the caller's id again
Begin(w, op, project_id, user_id, role, caller) ==
    LET call == [Idle EXCEPT !.op = op, !.pc = "lookup",
                             !.project = project_id, !.target = user_id,
                             !.role = role] IN
    /\ txns[w].pc = "idle"
    /\ IF ProjectService_check_project_permission(project_id, caller,
                                                  {"owner", "manager"})
       THEN /\ txns' = [txns EXCEPT ![w] = call]
            /\ UNCHANGED lastOp
       ELSE /\ lastOp' = [NoOp EXCEPT !.op = op,
                                      !.result = "AuthorizationError"]
            /\ UNCHANGED txns
    /\ UNCHANGED <<projects, members, memberSeq, tasks, assignments>>
    /\ UNCHANGED <<tokenVars, calVars>>

BeginRemove(w, project_id, user_id, removed_by) ==
    Begin(w, "remove_project_member", project_id, user_id, NoneStr, removed_by)

RemoveLookup(w) ==
    /\ txns[w].op = "remove_project_member"
    /\ txns[w].pc = "lookup"
    /\ LET r == remove_lookup(txns[w].project, txns[w].target) IN
       IF r.result = "ok"
       THEN /\ txns' = [txns EXCEPT ![w].pc = "delete", ![w].row = r.row]
            /\ UNCHANGED lastOp
       ELSE Finish(w, r.result)
    /\ UNCHANGED <<projects, members, memberSeq, tasks, assignments>>
    /\ UNCHANGED <<tokenVars, calVars>>

\* db.delete(member); commit: DELETE ... WHERE id = member.id.  When the
\* row is gone already the statement matches nothing.
RemoveDelete(w) ==
    /\ txns[w].op = "remove_project_member"
    /\ txns[w].pc = "delete"
    /\ members' = {m \in members : m.id # txns[w].row[1].id}
    /\ Finish(w, "ok")
    /\ UNCHANGED <<projects, memberSeq, tasks, assignments>>
    /\ UNCHANGED <<tokenVars, calVars>>

BeginAdd(w, project_id, member_data, added_by) ==
    /\ memberSeq + InFlight({"add_project_member", "create_project"}) < MaxRows
    /\ Begin(w, "add_project_member", project_id, member_data.user_id,
             member_data.role, added_by)

\* the SELECT of an existing membership, then of the target user
AddLookup(w) ==
    /\ txns[w].op = "add_project_member"
    /\ txns[w].pc = "lookup"
    /\ IF MemberRows(txns[w].project, txns[w].target) # {}
       THEN Finish(w, "ConflictError")
       ELSE IF ~Exists(txns[w].target)
       THEN Finish(w, "NotFoundError")
       ELSE /\ txns' = [txns EXCEPT ![w].pc = "insert"]
            /\ UNCHANGED lastOp
    /\ UNCHANGED <<projects, members, memberSeq, tasks, assignments>>
    /\ UNCHANGED <<tokenVars, calVars>>

\* db.add(project_member); commit.  The unique constraint on
\* (project_id, user_id) rejects a second row: IntegrityError, rollback.
AddInsert(w) ==
    /\ txns[w].op = "add_project_member"
    /\ txns[w].pc = "insert"
    /\ IF MemberRows(txns[w].project, txns[w].target) # {}
       THEN /\ Finish(w, "IntegrityError")
            /\ UNCHANGED <<members, memberSeq>>
       ELSE /\ members' = members \cup
                          {NewMember(memberSeq + 1, txns[w].project,
                                     txns[w].target, txns[w].role)}
            /\ memberSeq' = memberSeq + 1
            /\ Finish(w, "ok")
    /\ UNCHANGED <<projects, tasks, assignments>>
    /\ UNCHANGED <<tokenVars, calVars>>

\* create_project up to the flush of the project row, which stays
\* invisible to the other sessions until the commit
BeginCreate(w, project_data, creator_id) ==
    /\ txns[w].pc = "idle"
    /\ Exists(creator_id)
    /\ Len(projects) + InFlight({"create_project"}) < MaxProjects
    /\ memberSeq + InFlight({"add_project_member", "create_project"}) < MaxRows
    /\ txns' = [txns EXCEPT ![w] =
                  [Idle EXCEPT !.op = "create_project", !.pc = "flushed",
                               !.user = creator_id,
                               !.is_public = project_data.is_public]]
    /\ UNCHANGED <<projects, members, memberSeq, tasks, assignments, lastOp>>
    /\ UNCHANGED <<tokenVars, calVars>>

\* the OWNER row is added and both rows are committed together
CreateCommit(w) ==
    /\ txns[w].op = "create_project"
    /\ txns[w].pc = "flushed"
    /\ projects' = Append(projects, [creator_id |-> txns[w].user,
                                     is_public |-> txns[w].is_public,
                                     status |-> "planning"])
    /\ members' = members \cup {NewMember(memberSeq + 1, Len(projects) + 1,
                                          txns[w].user, "owner")}
    /\ memberSeq' = memberSeq + 1
    /\ Finish(w, "ok")
    /\ UNCHANGED <<tasks, assignments>>
    /\ UNCHANGED <<tokenVars, calVars>>

\* the commit raises: rollback, neither row persists
CreateRollback(w) ==
    /\ txns[w].op = "create_project"
    /\ txns[w].pc = "flushed"
    /\ Finish(w, "SQLAlchemyError")
    /\ UNCHANGED <<projects, members, memberSeq, tasks, assignments>>
    /\ UNCHANGED <<tokenVars, calVars>>

ConcProjectCreates == [is_public : {FALSE}, status : {"planning"}]

ConcMemberCreates == [user_id : UserIds, role : {"owner", "manager"}]

ConcInit ==
    /\ now = 0
    /\ tz = 0
    /\ users = [u \in UserIds |-> NewUser("developer")]
    /\ tokens = [access_token |-> NoneVal, refresh_token |-> NoneVal]
    /\ lastAuth = NoAuth
    /\ EmptyDb

ConcNext ==
    \/ \E w \in Workers : \E d \in ConcProjectCreates : \E u \in UserIds :
          BeginCreate(w, d, u)
    \/ \E w \in Workers : CreateCommit(w)
    \/ \E w \in Workers : CreateRollback(w)
    \/ \E w \in Workers : \E p \in ProjectIds : \E t \in UserIds :
          \E u \in UserIds : BeginRemove(w, p, t, u)
    \/ \E w \in Workers : \E p \in ProjectIds : \E d \in ConcMemberCreates :
          \E u \in UserIds : BeginAdd(w, p, d, u)
    \/ \E w \in Workers : RemoveLookup(w)
    \/ \E w \in Workers : RemoveDelete(w)
    \/ \E w \in Workers : AddLookup(w)
    \/ \E w \in Workers : AddInsert(w)

SpecConcurrent == ConcInit /\ [][ConcNext]_vars

\* ------------------------------------------------ concurrency claim (C8)
\* C8: whatever the interleaving of concurrent remove_project_member and
\* add_project_member calls, no committed state has a project without an
\* OWNER membership row.
C8_NeverOwnerless ==
    \A p \in DOMAIN projects :
        \E m \in members : m.project_id = p /\ m.role = "owner"

\* a removal has just committed while another removal on the same project
\* had passed its checks and is about to delete
C8_Witness ==
    /\ lastOp.op = "remove_project_member"
    /\ lastOp.result = "ok"
    /\ \E w \in Workers :
          /\ txns[w].op = "remove_project_member"
          /\ txns[w].pc = "delete"
          /\ \E m \in members : /\ m.project_id = txns[w].project
                                /\ m.role = "owner"

\* ------------------------------------------------ membership spec (C9)
MembersNext ==
    \/ \E d \in ConcProjectCreates : \E u \in 1..(MaxUsers + 1) :
          \E fails \in BOOLEAN : create_project(d, u, fails)
    \/ \E p \in ProjectIds : \E d \in MemberCreates : \E u \in UserIds :
          add_project_member(p, d, u)
    \/ \E p \in ProjectIds : \E t \in UserIds : \E u \in UserIds :
          RemoveProjectMember(p, t, u)

SpecMembers == ProjectInit /\ [][MembersNext]_vars

\* ====================================================== calendar service
MaxCalendars == 1       \* calendars ever created
MaxEvents == 1          \* events ever created
MaxAttendeeRows == 2    \* event_attendees rows ever inserted
MaxIds == 2             \* length of an attendee id list

CalendarIds == 1..MaxCalendars
EventIds == 1..MaxEvents

\* the callers of the event operations: a user id, or none (None and 0 are
\* both false in "if user_id:")
Callers == 0..MaxUsers

\* rows of event_attendees for one (event, user) pair
AttendeeRows(event_id, user_id) ==
    {a \in attendees : a.event_id = event_id /\ a.user_id = user_id}

\* services/calendar.py _check_event_access: creator, calendar owner, public
\* calendar, else an attendee row; scalar_one_or_none raises on several rows
\* and every exception is answered False
CalendarService_check_event_access(event_id, user_id) ==
    IF event_id \notin DOMAIN events THEN FALSE
    ELSE LET event == events[event_id]
             calendar == calendars[event.calendar_id] IN
         IF event.creator_id = user_id THEN TRUE
         ELSE IF calendar.owner_id = user_id THEN TRUE
         ELSE IF calendar.is_public THEN TRUE
         ELSE Cardinality(AttendeeRows(event_id, user_id)) = 1

\* services/calendar.py _get_accessible_calendars: public or owned
CalendarService_get_accessible_calendars(user_id) ==
    {c \in DOMAIN calendars :
        calendars[c].is_public \/ calendars[c].owner_id = user_id}

\* services/calendar.py _add_event_attendee on the rows A of the session:
\* the user must exist; an existing row for the pair ends the call; else a
\* row is inserted and flushed
CalendarService_add_event_attendee_nocheck(event_id, user_id, A, seq) ==
    IF ~Exists(user_id)
    THEN [result |-> "NotFoundError", rows |-> A, seq |-> seq]
    ELSE [result |-> "ok",
          rows |-> A \cup {[id |-> seq + 1, event_id |-> event_id,
                            user_id |-> user_id,
                            response_status |-> "pending"]},
          seq |-> seq + 1]

CalendarService_add_event_attendee(event_id, user_id, A, seq) ==
    LET existing == {a \in A : a.event_id = event_id /\ a.user_id = user_id} IN
    IF ~Exists(user_id)
    THEN [result |-> "NotFoundError", rows |-> A, seq |-> seq]
    ELSE IF Cardinality(existing) > 1
    THEN [result |-> "MultipleResultsFound", rows |-> A, seq |-> seq]
    ELSE IF existing # {}
    THEN [result |-> "ok", rows |-> A, seq |-> seq]
    ELSE [result |-> "ok",
          rows |-> A \cup {[id |-> seq + 1, event_id |-> event_id,
                            user_id |-> user_id,
                            response_status |-> "pending"]},
          seq |-> seq + 1]

\* "for user_id in user_ids: await self._add_event_attendee(event_id, user_id)":
\* the first exception ends the loop
RECURSIVE add_attendees(_, _, _, _)
add_attendees(event_id, user_ids, A, seq) ==
    IF user_ids = <<>> THEN [result |-> "ok", rows |-> A, seq |-> seq]
    ELSE LET r == CalendarService_add_event_attendee(event_id, Head(user_ids),
                                                     A, seq) IN
         IF r.result # "ok" THEN r
         ELSE add_attendees(event_id, Tail(user_ids), r.rows, r.seq)

\* the record of an event operation: the call and the rows it found
EventOp(op, user_id, event_id, result) ==
    [NoOp EXCEPT !.op = op, !.user = user_id, !.event = event_id,
                 !.result = result,
                 !.event_before = IF event_id \in DOMAIN events
                                  THEN Some(events[event_id]) ELSE NoneVal,
                 !.calendar_before =
                     IF event_id \in DOMAIN events
                     THEN Some(calendars[events[event_id].calendar_id])
                     ELSE NoneVal,
                 !.attendees_before = attendees]

\* services/calendar.py create_calendar
create_calendar(calendar_data, owner_id) ==
    LET cid == calendarSeq + 1
        result == IF ~Exists(owner_id) THEN "NotFoundError" ELSE "ok" IN
    /\ cid <= MaxCalendars
    /\ IF result = "ok"
       THEN /\ calendars' = (cid :> [owner_id |-> owner_id,
                                     is_public |-> calendar_data.is_public])
                            @@ calendars
            /\ calendarSeq' = cid
       ELSE UNCHANGED <<calendars, calendarSeq>>
    /\ lastOp' = [NoOp EXCEPT !.op = "create_calendar", !.user = owner_id,
                  !.calendar = IF result = "ok" THEN cid ELSE NoId,
                  !.result = result]
    /\ UNCHANGED <<events, eventSeq, attendees, attendeeSeq>>
    /\ UNCHANGED <<tokenVars, projects, members, memberSeq, tasks,
                   assignments, txns>>

\* update_calendar without the ownership test, taking owner_id from the
\* caller as it takes updated_by
update_calendar_takeover(calendar_id, calendar_data, user_id) ==
    LET result ==
          IF calendar_id \notin DOMAIN calendars THEN "NotFoundError"
          ELSE "ok" IN
    /\ IF result = "ok"
       THEN calendars' = [calendars EXCEPT
                            ![calendar_id].is_public = calendar_data.is_public,
                            ![calendar_id].owner_id = user_id]
       ELSE UNCHANGED calendars
    /\ lastOp' = [NoOp EXCEPT !.op = "update_calendar", !.user = user_id,
                  !.calendar = calendar_id, !.result = result]
    /\ UNCHANGED <<calendarSeq, events, eventSeq, attendees, attendeeSeq>>
    /\ UNCHANGED <<tokenVars, projects, members, memberSeq, tasks,
                   assignments, txns>>

\* services/calendar.py update_calendar: the owner only
update_calendar(calendar_id, calendar_data, user_id) ==
    LET result ==
          IF calendar_id \notin DOMAIN calendars THEN "NotFoundError"
          ELSE IF calendars[calendar_id].owner_id # user_id
          THEN "AuthorizationError"
          ELSE "ok" IN
    /\ IF result = "ok"
       THEN calendars' = [calendars EXCEPT ![calendar_id].is_public =
                                               calendar_data.is_public]
       ELSE UNCHANGED calendars
    /\ lastOp' = [NoOp EXCEPT !.op = "update_calendar", !.user = user_id,
                  !.calendar = calendar_id, !.result = result]
    /\ UNCHANGED <<calendarSeq, events, eventSeq, attendees, attendeeSeq>>
    /\ UNCHANGED <<tokenVars, projects, members, memberSeq, tasks,
                   assignments, txns>>

\* services/calendar.py delete_calendar: the owner only; the row is deleted
\* and the delete cascades to the calendar's events and their attendees
delete_calendar(calendar_id, user_id) ==
    LET result ==
          IF calendar_id \notin DOMAIN calendars THEN "NotFoundError"
          ELSE IF calendars[calendar_id].owner_id # user_id
          THEN "AuthorizationError"
          ELSE "ok"
        gone == {e \in DOMAIN events : events[e].calendar_id = calendar_id} IN
    /\ IF result = "ok"
       THEN /\ calendars' = [c \in DOMAIN calendars \ {calendar_id} |->
                                calendars[c]]
            /\ events' = [e \in DOMAIN events \ gone |-> events[e]]
            /\ attendees' = {a \in attendees : a.event_id \notin gone}
       ELSE UNCHANGED <<calendars, events, attendees>>
    /\ lastOp' = [NoOp EXCEPT !.op = "delete_calendar", !.user = user_id,
                  !.calendar = calendar_id, !.result = result]
    /\ UNCHANGED <<calendarSeq, eventSeq, attendeeSeq>>
    /\ UNCHANGED <<tokenVars, projects, members, memberSeq, tasks,
                   assignments, txns>>

\* services/calendar.py create_event: the calendar must exist (the permission
\* test "not owner_id and owner_id != creator_id" is false for every owner
\* id); the event row needs a creator (creator_id is NOT NULL with a foreign
\* key); then the attendees are added; any exception rolls the whole call back
create_event(event_data, creator_id) ==
    LET eid == eventSeq + 1
        added == add_attendees(eid, event_data.attendee_ids, attendees,
                               attendeeSeq)
        result ==
          IF event_data.calendar_id \notin DOMAIN calendars
          THEN "NotFoundError"
          ELSE IF ~Exists(creator_id) THEN "IntegrityError"
          ELSE added.result IN
    /\ eid <= MaxEvents
    /\ added.seq <= MaxAttendeeRows
    /\ IF result = "ok"
       THEN /\ events' = (eid :> [calendar_id |-> event_data.calendar_id,
                                  creator_id |-> creator_id,
                                  status |-> "scheduled"]) @@ events
            /\ eventSeq' = eid
            /\ attendees' = added.rows
            /\ attendeeSeq' = added.seq
       ELSE UNCHANGED <<events, eventSeq, attendees, attendeeSeq>>
    /\ lastOp' = [NoOp EXCEPT !.op = "create_event", !.user = creator_id,
                  !.calendar = event_data.calendar_id,
                  !.event = IF result = "ok" THEN eid ELSE NoId,
                  !.user_ids = event_data.attendee_ids,
                  !.attendees_before = attendees,
                  !.result = result]
    /\ UNCHANGED <<calendars, calendarSeq>>
    /\ UNCHANGED <<tokenVars, projects, members, memberSeq, tasks,
                   assignments, txns>>

\* services/calendar.py get_event_by_id: the access check is made only
\* "if user_id:"
get_event_by_id(event_id, user_id) ==
    LET result ==
          IF event_id \notin DOMAIN events THEN "NotFoundError"
          ELSE IF user_id # NoId
                  /\ ~CalendarService_check_event_access(event_id, user_id)
          THEN "AuthorizationError"
          ELSE "ok" IN
    /\ lastOp' = EventOp("get_event_by_id", user_id, event_id, result)
    /\ UNCHANGED calVars
    /\ UNCHANGED <<tokenVars, projects, members, memberSeq, tasks,
                   assignments, txns>>

\* services/calendar.py list_events without search filters: the events of
\* the accessible calendars, or of the public calendars for no user id
list_events(user_id) ==
    LET visible == IF user_id # NoId
                   THEN CalendarService_get_accessible_calendars(user_id)
                   ELSE {c \in DOMAIN calendars : calendars[c].is_public} IN
    /\ lastOp' = [NoOp EXCEPT !.op = "list_events", !.user = user_id,
                  !.result = "ok",
                  !.listed = {e \in DOMAIN events :
                                 events[e].calendar_id \in visible}]
    /\ UNCHANGED calVars
    /\ UNCHANGED <<tokenVars, projects, members, memberSeq, tasks,
                   assignments, txns>>

\* services/calendar.py update_event: guarded by _check_event_access
update_event(event_id, event_data, user_id) ==
    LET result ==
          IF ~CalendarService_check_event_access(event_id, user_id)
          THEN "AuthorizationError"
          ELSE IF event_id \notin DOMAIN events THEN "NotFoundError"
          ELSE "ok" IN
    /\ lastOp' = EventOp("update_event", user_id, event_id, result)
    /\ IF result = "ok"
       THEN events' = [events EXCEPT ![event_id].status = event_data.status]
       ELSE UNCHANGED events
    /\ UNCHANGED <<calendars, calendarSeq, eventSeq, attendees, attendeeSeq>>
    /\ UNCHANGED <<tokenVars, projects, members, memberSeq, tasks,
                   assignments, txns>>

\* services/calendar.py delete_event: guarded by _check_event_access; the
\* row is deleted and the delete cascades to its attendees
delete_event(event_id, user_id) ==
    LET result ==
          IF ~CalendarService_check_event_access(event_id, user_id)
          THEN "AuthorizationError"
          ELSE IF event_id \notin DOMAIN events THEN "NotFoundError"
          ELSE "ok" IN
    /\ lastOp' = EventOp("delete_event", user_id, event_id, result)
    /\ IF result = "ok"
       THEN /\ events' = [e \in DOMAIN events \ {event_id} |-> events[e]]
            /\ attendees' = {a \in attendees : a.event_id # event_id}
       ELSE UNCHANGED <<events, attendees>>
    /\ UNCHANGED <<calendars, calendarSeq, eventSeq, attendeeSeq>>
    /\ UNCHANGED <<tokenVars, projects, members, memberSeq, tasks,
                   assignments, txns>>

\* services/calendar.py add_event_attendees
add_event_attendees(event_id, user_ids, added_by) ==
    LET added == add_attendees(event_id, user_ids, attendees, attendeeSeq)
        result ==
          IF ~CalendarService_check_event_access(event_id, added_by)
          THEN "AuthorizationError"
          ELSE IF event_id \notin DOMAIN events THEN "NotFoundError"
          ELSE added.result IN
    /\ added.seq <= MaxAttendeeRows
    /\ lastOp' = [EventOp("add_event_attendees", added_by, event_id, result)
                    EXCEPT !.user_ids = user_ids]
    /\ IF result = "ok"
       THEN /\ attendees' = added.rows
            /\ attendeeSeq' = added.seq
       ELSE UNCHANGED <<attendees, attendeeSeq>>
    /\ UNCHANGED <<calendars, calendarSeq, events, eventSeq>>
    /\ UNCHANGED <<tokenVars, projects, members, memberSeq, tasks,
                   assignments, txns>>

\* services/calendar.py remove_event_attendee: the row of the pair is
\* deleted; False is returned when there is none
remove_event_attendee(event_id, user_id, removed_by) ==
    LET found == AttendeeRows(event_id, user_id)
        result ==
          IF ~CalendarService_check_event_access(event_id, removed_by)
          THEN "AuthorizationError"
          ELSE IF Cardinality(found) > 1 THEN "MultipleResultsFound"
          ELSE IF found = {} THEN "False"
          ELSE "ok" IN
    /\ lastOp' = [EventOp("remove_event_attendee", removed_by, event_id,
                          result) EXCEPT !.target = user_id]
    /\ attendees' = IF result = "ok" THEN attendees \ found ELSE attendees
    /\ UNCHANGED <<calendars, calendarSeq, events, eventSeq, attendeeSeq>>
    /\ UNCHANGED <<tokenVars, projects, members, memberSeq, tasks,
                   assignments, txns>>

\* one evaluation of _check_event_access
CheckEventAccess(event_id, user_id) ==
    /\ lastOp' = [EventOp("check_event_access", user_id, event_id, "ok")
                    EXCEPT !.granted =
                        CalendarService_check_event_access(event_id, user_id)]
    /\ UNCHANGED calVars
    /\ UNCHANGED <<tokenVars, projects, members, memberSeq, tasks,
                   assignments, txns>>

RECURSIVE IdLists(_)
IdLists(n) ==
    IF n = 0 THEN {<<>>}
    ELSE IdLists(n - 1) \cup
         {Append(l, u) : l \in {x \in IdLists(n - 1) : Len(x) = n - 1},
                         u \in 1..(MaxUsers + 1)}

CalendarCreates == [is_public : BOOLEAN]
EventCreates == [calendar_id : CalendarIds, attendee_ids : IdLists(MaxIds)]
EventUpdates == [status : {"cancelled"}]

CalendarNext ==
    \/ \E d \in CalendarCreates : \E u \in 1..(MaxUsers + 1) :
          create_calendar(d, u)
    \/ \E c \in CalendarIds : \E d \in CalendarCreates : \E u \in UserIds :
          update_calendar(c, d, u)
    \/ \E c \in CalendarIds : \E u \in UserIds : delete_calendar(c, u)
    \/ \E d \in EventCreates : \E u \in Callers : create_event(d, u)
    \/ \E e \in EventIds : \E u \in Callers : get_event_by_id(e, u)
    \/ \E u \in Callers : list_events(u)
    \/ \E e \in EventIds : \E d \in EventUpdates : \E u \in Callers :
          update_event(e, d, u)
    \/ \E e \in EventIds : \E u \in Callers : delete_event(e, u)
    \/ \E e \in EventIds : \E l \in IdLists(MaxIds) : \E u \in Callers :
          add_event_attendees(e, l, u)
    \/ \E e \in EventIds : \E t \in UserIds : \E u \in Callers :
          remove_event_attendee(e, t, u)
    \/ \E e \in EventIds : \E u \in UserIds : CheckEventAccess(e, u)

SpecCalendar == ProjectInit /\ [][CalendarNext]_vars

\* ------------------------------------------------------ calendar claims
\* the relations of a user to an event, on the rows a call found
EventOf(op) == op.event_before[1]
CalendarOf(op) == op.calendar_before[1]
Attending(op, u) ==
    \E a \in op.attendees_before : a.event_id = op.event /\ a.user_id = u
Admin(u) == u \in DOMAIN users /\ is_admin(users[u])

\* C11: event access is granted exactly when the user is ADMIN, or created
\* the event, or owns its calendar, or the calendar is public, or an attendee
\* row exists for (event, user); it is denied in every other case
C11_EventAccess ==
    (lastOp.op = "check_event_access" /\ lastOp.event_before # NoneVal) =>
        (lastOp.granted <=>
            \/ Admin(lastOp.user)
            \/ EventOf(lastOp).creator_id = lastOp.user
            \/ CalendarOf(lastOp).owner_id = lastOp.user
            \/ CalendarOf(lastOp).is_public
            \/ Attending(lastOp, lastOp.user))

\* C12: update_event and delete_event succeed only for the event's creator,
\* the owner of its calendar or an ADMIN; an attendee row or a public
\* calendar alone never allows a modification or a deletion
C12_EventWriteGuard ==
    (lastOp.op \in {"update_event", "delete_event"} /\ lastOp.result = "ok") =>
        \/ Admin(lastOp.user)
        \/ EventOf(lastOp).creator_id = lastOp.user
        \/ CalendarOf(lastOp).owner_id = lastOp.user

\* C13: for a caller without a user id, get_event_by_id and list_events show
\* an event exactly when its calendar is public, and no write on an event
\* succeeds
EventWrites ==
    {"create_event", "update_event", "delete_event", "add_event_attendees",
     "remove_event_attendee"}

C13_AnonymousAccess ==
    lastOp.user = NoId =>
        /\ (lastOp.op = "get_event_by_id" /\ lastOp.event_before # NoneVal) =>
              (lastOp.result = "ok" <=> CalendarOf(lastOp).is_public)
        /\ lastOp.op = "list_events" =>
              lastOp.listed = {e \in DOMAIN events :
                                  calendars[events[e].calendar_id].is_public}
        /\ lastOp.op \in EventWrites => lastOp.result # "ok"

\* ------------------------------------------------ attendee spec (C19)
AttendeeNext ==
    \/ \E d \in CalendarCreates : \E u \in UserIds : create_calendar(d, u)
    \/ \E d \in EventCreates : \E u \in UserIds : create_event(d, u)
    \/ \E e \in EventIds : \E l \in IdLists(MaxIds) : \E u \in UserIds :
          add_event_attendees(e, l, u)
    \/ \E e \in EventIds : \E t \in UserIds : \E u \in UserIds :
          remove_event_attendee(e, t, u)

SpecAttendees == ProjectInit /\ [][AttendeeNext]_vars

\* the users a call named that were already attending the event, or that it
\* named more than once
Repeated(op) ==
    {u \in UserIds :
        /\ \E i \in DOMAIN op.user_ids : op.user_ids[i] = u
        /\ \/ \E a \in op.attendees_before :
                 a.event_id = op.event /\ a.user_id = u
           \/ \E i, j \in DOMAIN op.user_ids :
                 i # j /\ op.user_ids[i] = u /\ op.user_ids[j] = u}

\* C19: adding a user as attendee of an event a second time (a second
\* add_event_attendees call, the same id twice in one call, or after
\* create_event's attendee_ids) leaves exactly one row for the pair, and
\* the rows that existed before the call are unchanged
C19_AttendeeAddIdempotent ==
    /\ \A e \in EventIds : \A u \in UserIds :
          Cardinality(AttendeeRows(e, u)) <= 1
    /\ (lastOp.op \in {"create_event", "add_event_attendees"}
        /\ lastOp.result = "ok") =>
          /\ lastOp.attendees_before \subseteq attendees
          /\ \A i \in DOMAIN lastOp.user_ids :
                Cardinality(AttendeeRows(lastOp.event, lastOp.user_ids[i])) = 1

\* a successful add that named a user already attending, or named a user
\* twice
C19_Witness ==
    /\ lastOp.op \in {"create_event", "add_event_attendees"}
    /\ lastOp.result = "ok"
    /\ Repeated(lastOp) # {}

\* ============================================ global role and access (C14)
\* services/user.py update_user with a role in the update data
update_user(user_id, user_data, updated_by) ==
    /\ lastOp' = [NoOp EXCEPT !.op = "update_user", !.user = updated_by,
                  !.target = user_id, !.role = user_data.role,
                  !.result = IF Exists(user_id) THEN "ok" ELSE "None"]
    /\ users' = IF Exists(user_id)
                THEN [users EXCEPT ![user_id].role = user_data.role]
                ELSE users
    /\ UNCHANGED <<now, tz, tokens, lastAuth>>
    /\ UNCHANGED <<projects, members, memberSeq, tasks, assignments, txns,
                   calVars>>

UserUpdates == [role : {"manager", "viewer"}]

\* utils/auth.py get_user_scopes: the scopes of a role; a role that is not
\* a key of the table gets the default list
get_user_scopes(role) ==
    IF role = "admin"
    THEN {"users:read", "users:write", "users:delete", "projects:read",
          "projects:write", "projects:delete", "tasks:read", "tasks:write",
          "tasks:delete", "calendar:read", "calendar:write",
          "calendar:delete", "system:read", "system:write"}
    ELSE IF role = "project_manager"
    THEN {"users:read", "projects:read", "projects:write", "tasks:read",
          "tasks:write", "tasks:delete", "calendar:read", "calendar:write"}
    ELSE IF role = "developer"
    THEN {"users:read", "projects:read", "tasks:read", "tasks:write",
          "calendar:read", "calendar:write"}
    ELSE IF role = "viewer"
    THEN {"users:read", "projects:read", "tasks:read", "calendar:read"}
    ELSE {"projects:read", "tasks:read"}

\* utils/auth.py check_permission
check_permission(user_role, resource, action) ==
    LET user_scopes == get_user_scopes(user_role)
        required_scope == resource \o ":" \o action IN
    required_scope \in user_scopes

Resources == {"projects", "tasks", "calendar"}
Actions == {"read", "write"}

\* one evaluation of check_permission for the role of a user
CheckPermission(user_id, resource, action) ==
    /\ lastOp' = [NoOp EXCEPT !.op = "check_permission", !.user = user_id,
                  !.role = users[user_id].role,
                  !.granted = check_permission(users[user_id].role, resource,
                                               action),
                  !.result = "ok"]
    /\ UNCHANGED <<tokenVars, projects, members, memberSeq, tasks,
                   assignments, txns, calVars>>

AccessEventCreates ==
    {d \in EventCreates :
        Len(d.attendee_ids) <= 1 /\ \A i \in DOMAIN d.attendee_ids :
                                      d.attendee_ids[i] \in UserIds}

AccessTaskCreates ==
    {d \in TaskCreates : Cardinality(d.assignee_ids) <= 1}

AccessMemberCreates == [user_id : UserIds, role : {"viewer"}]

AccessNext ==
    \/ \E u \in UserIds : \E d \in UserUpdates : \E by \in {1} :
          update_user(u, d, by)
    \/ \E d \in ProjectCreates : \E u \in UserIds : create_project(d, u, FALSE)
    \/ \E p \in ProjectIds : \E d \in AccessMemberCreates : \E u \in UserIds :
          add_project_member(p, d, u)
    \/ \E d \in AccessTaskCreates : \E u \in UserIds : create_task(d, u)
    \/ \E d \in CalendarCreates : \E u \in UserIds : create_calendar(d, u)
    \/ \E d \in AccessEventCreates : \E u \in UserIds : create_event(d, u)
    \/ \E u \in UserIds : \E r \in Resources : \E a \in Actions :
          CheckPermission(u, r, a)

SpecAccess == ProjectInit /\ [][AccessNext]_vars

\* every decision the access checks give to user u in the current state
Decisions(u) ==
    [project |-> [p \in ProjectIds |->
         <<ProjectPermission_check_project_access(p, u),
           ProjectService_check_project_access(p, u),
           TaskService_check_project_access(p, u),
           ProjectService_check_project_permission(p, u, {"owner", "manager"}),
           ProjectService_check_project_permission(p, u, {"owner"})>>],
     task |-> [t \in TaskIds |->
         <<TaskPermission_check_task_access(t, u),
           TaskService_check_task_access(t, u)>>],
     event |-> [e \in EventIds |-> CalendarService_check_event_access(e, u)],
     permission |-> [r \in Resources |-> [a \in Actions |->
         check_permission(users[u].role, r, a)]]]

NoProjectRelation(u, p) ==
    projects[p].creator_id # u /\ MemberRows(p, u) = {}

\* a non-ADMIN user without ownership, membership, assignment or attendee
\* row is denied by every check on every resource that is not public
UnrelatedDenied ==
    \A u \in UserIds : ~is_admin(users[u]) =>
        /\ \A p \in DOMAIN projects :
              (~projects[p].is_public /\ NoProjectRelation(u, p)) =>
                  Decisions(u).project[p] =
                      <<FALSE, FALSE, FALSE, FALSE, FALSE>>
        /\ \A t \in DOMAIN tasks :
              (/\ ~projects[tasks[t].project_id].is_public
               /\ NoProjectRelation(u, tasks[t].project_id)
               /\ tasks[t].creator_id # u
               /\ ~ActiveAssignment(t, u)) =>
                  Decisions(u).task[t] = <<FALSE, FALSE>>
        /\ \A e \in DOMAIN events :
              (/\ ~calendars[events[e].calendar_id].is_public
               /\ calendars[events[e].calendar_id].owner_id # u
               /\ events[e].creator_id # u
               /\ AttendeeRows(e, u) = {}) =>
                  ~Decisions(u).event[e]

\* a step that changes nothing but the global role of users, between roles
\* other than ADMIN, changes no decision
RoleStep ==
    \A u \in UserIds :
        (/\ users'[u].role # users[u].role
         /\ ~is_admin(users[u]) /\ ~is_admin(users'[u])
         /\ UNCHANGED <<projects, members, tasks, assignments, calendars,
                        events, attendees>>) =>
            Decisions(u)' = Decisions(u)

\* C14: apart from ADMIN the global role has no influence on the project,
\* task and event access checks (the evaluators of core/dependencies.py and
\* of the services, and check_permission): changing a user's role between
\* two roles other than ADMIN, all ownerships, memberships, assignments and
\* attendee rows being the same, changes no decision; and a non-ADMIN user
\* with none of these relations is denied on every resource that is not
\* public
C14_RoleNonInterference == [](UnrelatedDenied) /\ [][RoleStep]_vars

\* ------------------------------------------- project creation spec (C15)
OwnerNext ==
    \/ \E d \in ConcProjectCreates : \E u \in 1..(MaxUsers + 1) :
          \E fails \in BOOLEAN : create_project(d, u, fails)
    \/ \E p \in ProjectIds : \E d \in ProjectUpdates : \E u \in UserIds :
          update_project(p, d, u)
    \/ \E p \in ProjectIds : \E d \in ConcMemberCreates : \E u \in UserIds :
          add_project_member(p, d, u)

SpecOwner == ProjectInit /\ [][OwnerNext]_vars

\* the state a successful create_project leaves
Created == lastOp.op = "create_project" /\ lastOp.result = "ok"

\* in that state the project has one active OWNER row, the creator's, and
\* the creator passes the guard of the managing operations
CreatorOwns ==
    Created =>
        /\ Cardinality(OwnerRows(lastOp.project, members)) = 1
        /\ \A m \in OwnerRows(lastOp.project, members) :
              m.user_id = lastOp.user
        /\ ProjectService_check_project_permission(lastOp.project, lastOp.user,
                                                   {"owner", "manager"})

\* the creator's next call on the new project: update_project succeeds, and
\* add_project_member succeeds for an existing user who is not yet a member
CreatorManages ==
    (Created /\ lastOp'.user = lastOp.user
             /\ lastOp'.project = lastOp.project) =>
        /\ lastOp'.op = "update_project" => lastOp'.result = "ok"
        /\ lastOp'.op = "add_project_member" =>
              IF Exists(lastOp'.target) /\ lastOp'.target # lastOp.user
              THEN /\ lastOp'.result = "ok"
                   /\ \E m \in members' : /\ m.project_id = lastOp.project
                                          /\ m.user_id = lastOp'.target
              ELSE lastOp'.result \in {"ConflictError", "NotFoundError"}

\* C15: after a successful create_project by u the new project has exactly
\* one active OWNER membership row, that row is u's, and u can at once
\* update the project and add members
C15_CreatorIsOwner == [](CreatorOwns) /\ [][CreatorManages]_vars

\* a project has just been created by an existing user
C15_Witness ==
    /\ Created
    /\ lastOp.project \in DOMAIN projects
    /\ projects[lastOp.project].creator_id = lastOp.user
    /\ \E m \in members : m.project_id = lastOp.project

\* C16: on a private project created by A, get_project_by_id by a user B
\* without membership is refused with AuthorizationError, and once A has
\* added B with role VIEWER the same read by B is allowed
C16_MemberReadScenario ==
    (/\ lastOp.op = "get_project_by_id"
     /\ lastOp.project \in DOMAIN projects
     /\ lastOp.user \in UserIds
     /\ ~projects[lastOp.project].is_public
     /\ projects[lastOp.project].creator_id # lastOp.user
     /\ ~is_admin(users[lastOp.user])) =>
        /\ MemberRows(lastOp.project, lastOp.user) = {} =>
              lastOp.result = "AuthorizationError"
        /\ (\E m \in ActiveRows(lastOp.user, lastOp.project, members) :
               m.role = "viewer") => lastOp.result = "ok"

\* ------------------------------------------- assignment spec (C17, C18)
TaskUpdates == [status : {"in_progress"}]

AssignNext ==
    \/ \E d \in ProjectCreates : \E u \in UserIds : create_project(d, u, FALSE)
    \/ \E d \in TaskCreates : \E u \in UserIds : create_task(d, u)
    \/ \E t \in TaskIds : \E a \in SUBSET (1..(MaxUsers + 1)) :
          \E u \in UserIds : assign_task(t, a, u)
    \/ \E t \in TaskIds : \E d \in TaskUpdates : \E u \in UserIds :
          update_task(t, d, u)

SpecAssign == ProjectInit /\ [][AssignNext]_vars

\* user u has no membership in the task's project, did not create the task
\* and is not assigned to it
UnrelatedToTask(u, t) ==
    /\ MemberRows(tasks[t].project_id, u) = {}
    /\ tasks[t].creator_id # u
    /\ ~ActiveAssignment(t, u)

UpdateTaskStep ==
    (lastOp'.op = "update_task" /\ lastOp'.task \in DOMAIN tasks) =>
        /\ ActiveAssignment(lastOp'.task, lastOp'.user) =>
              lastOp'.result = "ok"
        /\ (/\ UnrelatedToTask(lastOp'.user, lastOp'.task)
            /\ ~is_admin(users[lastOp'.user])) =>
              /\ lastOp'.result = "AuthorizationError"
              /\ UNCHANGED tasks

\* C17: update_task by a user assigned to the task is allowed; update_task
\* by a user with no membership in the task's project who is neither creator
\* nor assignee is refused with AuthorizationError and leaves the task
\* unchanged, whether the project is public or not
C17_UpdateTaskScenario == [][UpdateTaskStep]_vars

\* the active assignment rows of a (task, user) pair
ActiveAssignments(t, u) ==
    {a \in assignments : a.task_id = t /\ a.user_id = u /\ a.is_active}

\* C18: there is at most one active TaskAssignment row per (task, user)
\* pair, and assign_task naming a user whose earlier assignment to the task
\* was deactivated succeeds and leaves that user with exactly one active
\* assignment to the task
C18_OneActiveAssignment ==
    /\ \A t \in TaskIds : \A u \in UserIds :
          Cardinality(ActiveAssignments(t, u)) <= 1
    /\ (/\ lastOp.op = "assign_task"
        /\ lastOp.result \notin {"AuthorizationError", "NotFoundError"}
        /\ \E u \in lastOp.assignees : \E a \in lastOp.assignments_before :
              a.task_id = lastOp.task /\ a.user_id = u /\ ~a.is_active) =>
          /\ lastOp.result = "ok"
          /\ \A u \in lastOp.assignees :
                Cardinality(ActiveAssignments(lastOp.task, u)) = 1

\* ------------------------------------------------- token refresh (C20)
\* C20: refresh_access_token with a token that verifies as a refresh token
\* (refresh type, signed, unexpired) returns a new access token for the same
\* subject which verifies as an access token; with any other token it fails
\* and mints nothing
C20_RefreshMintsValidAccess ==
    (lastAuth.op = "refresh_access_token" /\ lastAuth.cred # NoneVal) =>
        IF decode_refresh_token(lastAuth.cred[1], now, tz).ok
        THEN /\ lastAuth.ok
             /\ lastAuth.minted # NoneVal
             /\ SubjectOf(lastAuth.minted[1]) = SubjectOf(lastAuth.cred[1])
             /\ decode_access_token(lastAuth.minted[1], now, tz).ok
        ELSE ~lastAuth.ok /\ lastAuth.minted = NoneVal

\* ------------------------------------------ issued tokens and logout (C21)
\* api/auth.py logout: get_current_active_user resolves the caller, the
\* handler logs and answers; no token is stored, revoked or blacklisted
Logout(cred) ==
    LET r == get_current_user(cred, now, tz, users) IN
    /\ users' = IF r.user = NoId THEN users
                ELSE [users EXCEPT ![r.user] = update_last_active(@, now)]
    /\ lastAuth' = [NoAuth EXCEPT !.op = "logout",
                    !.expected = "access", !.cred = cred, !.ok = (r.user # NoId),
                    !.err = r.raised,
                    !.user = r.user, !.http = get_current_active_user(r.user)]
    /\ UNCHANGED <<now, tz, tokens>>
    /\ UNCHANGED dbVars

SessionNext ==
    \/ Tick
    \/ \E s \in UserIds : CreateTokenPair(s)
    \/ \E u \in UserIds : Login(u)
    \/ \E p \in Presentable : RefreshAccessToken(p)
    \/ \E p \in Presentable : GetCurrentUser(Some(p))
    \/ \E p \in Presentable : Logout(Some(p))

SpecSession == TokenInit /\ [][SessionNext]_vars

\* what every verifier of the repository answers for a token at this moment
VerifyResults(k) ==
    <<decode_access_token(k, now, tz).ok,
      decode_refresh_token(k, now, tz).ok,
      verify_token(k, "access", now).ok,
      verify_token(k, "refresh", now).ok,
      refresh_access_token(k, now, tz).ok,
      get_current_user(Some(k), now, tz, users).user>>

\* a step that is not the passing of time leaves the answers for every
\* token the client holds (or a tampered copy) as they were
ResultsKept ==
    now' = now => \A k \in Presentable : VerifyResults(k)' = VerifyResults(k)

\* the passing of time never makes a rejected token verify
NeverRevived ==
    \A k \in Presentable : \A i \in 1..5 :
        VerifyResults(k)'[i] => VerifyResults(k)[i]

\* the answer each operation reports is the verifiers' answer for the token
\* presented, computed from the token, the clock and nothing else
ReportedIsComputed ==
    lastAuth.cred # NoneVal =>
        LET k == lastAuth.cred[1] IN
        /\ lastAuth.op = "decode_access_token" =>
               lastAuth.ok = VerifyResults(k)[1]
        /\ lastAuth.op = "decode_refresh_token" =>
               lastAuth.ok = VerifyResults(k)[2]
        /\ lastAuth.op = "verify_token" =>
               lastAuth.ok = verify_token(k, lastAuth.expected, now).ok
        /\ lastAuth.op = "refresh_access_token" =>
               lastAuth.ok = VerifyResults(k)[5]
        /\ lastAuth.op \in {"logout", "get_current_user"} =>
               lastAuth.user = VerifyResults(k)[6]

\* C21: whether an issued token verifies depends only on its signature, type
\* and expiry: no operation (logout, refresh, login, issuing further tokens)
\* changes the verification result of an existing token, so a refresh token
\* can be reused for further refreshes and an access token stays valid after
\* logout, both until their expiry.
C21_VerificationFrame ==
    [](ReportedIsComputed) /\ [][ResultsKept /\ NeverRevived]_vars

\* a refresh has just succeeded and the refresh token it used would be
\* accepted again, while the access token it replaced still verifies
C21_Witness ==
    /\ lastAuth.op = "refresh_access_token"
    /\ lastAuth.ok
    /\ refresh_access_token(lastAuth.cred[1], now, tz).ok
    /\ tokens.access_token = lastAuth.minted
    /\ decode_access_token(tokens.access_token[1], now, tz).ok

\* ------------------------------------------- verification failures (C22)
\* a correctly signed token of the expected type whose only defect is that
\* its expiry has passed
ExpiredOnly(k, op, expected) ==
    /\ k.signed
    /\ 2 * k.exp < now
    /\ IF op = "verify_token"
       THEN k.type = expected /\ k.user_id # NoId
       ELSE k.token_type = expected /\ k.sub # NoneStr

\* the error value a verifier hands to its caller for a token
ErrorOf(k, op, expected) ==
    IF op = "decode_access_token" THEN decode_access_token(k, now, tz).err
    ELSE IF op = "decode_refresh_token" THEN decode_refresh_token(k, now, tz).err
    ELSE verify_token(k, expected, now).err

\* C22: verification fails with two distinguishable outcomes, one for a bad
\* signature, shape or type and one for a correctly signed, well-formed
\* token past its expiry: the error reported for an expired token is never
\* the error value the same verifier reports for that token with a bad
\* signature or for a token of the wrong type.
C22_DistinctFailures ==
    (/\ lastAuth.op \in {"decode_access_token", "decode_refresh_token",
                         "verify_token"}
     /\ lastAuth.cred # NoneVal
     /\ ~lastAuth.ok
     /\ ExpiredOnly(lastAuth.cred[1], lastAuth.op, lastAuth.expected))
        => LET k == lastAuth.cred[1]
               forged == [k EXCEPT !.signed = FALSE]
               other == IF lastAuth.expected = "access" THEN "refresh"
                        ELSE "access"
               mistyped == IF lastAuth.op = "verify_token"
                           THEN [k EXCEPT !.type = other]
                           ELSE [k EXCEPT !.token_type = other]
           IN /\ lastAuth.err # ErrorOf(forged, lastAuth.op, lastAuth.expected)
              /\ lastAuth.err # ErrorOf(mistyped, lastAuth.op, lastAuth.expected)

\* ------------------------------------------ duplicate memberships (C23)
MembershipNext ==
    \/ \E d \in ProjectCreates : \E u \in 1..(MaxUsers + 1) :
          \E fails \in BOOLEAN : create_project(d, u, fails)
    \/ \E p \in ProjectIds : \E d \in MemberCreates : \E u \in UserIds :
          add_project_member(p, d, u)

SpecMembership == ProjectInit /\ [][MembershipNext]_vars

\* add_project_member was called for a user who had a membership row in
\* the project
DuplicateAdd ==
    /\ lastOp.op = "add_project_member"
    /\ \E m \in lastOp.members_before :
          m.project_id = lastOp.project /\ m.user_id = lastOp.target

\* no two membership rows for the same (project, user) pair
OneRowPerPair ==
    \A m1 \in members : \A m2 \in members :
        (m1.project_id = m2.project_id /\ m1.user_id = m2.user_id) => m1 = m2

\* C23 as stated: add_project_member for a user who already has a
\* membership row in the project fails with ConflictError and adds nothing,
\* so no reachable state holds two rows for the same (project, user) pair.
C23_DuplicateConflict ==
    /\ DuplicateAdd =>
          /\ lastOp.result = "ConflictError"
          /\ members = lastOp.members_before
    /\ OneRowPerPair

\* C23 amended: add_project_member for a user who already has a membership
\* row in the project always fails and adds nothing, with ConflictError
\* (409) when the caller holds an OWNER or MANAGER membership row of the
\* project and with AuthorizationError (403) for every other caller; no
\* reachable state holds two rows for the same (project, user) pair.
C23_DuplicateRejected ==
    /\ DuplicateAdd =>
          LET manages == \E m \in lastOp.members_before :
                            /\ m.project_id = lastOp.project
                            /\ m.user_id = lastOp.user
                            /\ m.role \in {"owner", "manager"} IN
          /\ members = lastOp.members_before
          /\ lastOp.result = IF manages THEN "ConflictError"
                             ELSE "AuthorizationError"
          /\ status_code(lastOp.result) = IF manages THEN 409 ELSE 403
    /\ OneRowPerPair

\* a MANAGER asked to add, as VIEWER, the user who is the project's OWNER
\* and was answered 409
C23_Witness ==
    /\ DuplicateAdd
    /\ lastOp.user # lastOp.target
    /\ \E m \in members : /\ m.project_id = lastOp.project
                          /\ m.user_id = lastOp.user
                          /\ m.role = "manager"
    /\ \E m \in members : /\ m.project_id = lastOp.project
                          /\ m.user_id = lastOp.target
                          /\ m.role = "owner"
    /\ lastOp.role = "viewer"
    /\ lastOp.result = "ConflictError"

\* ------------------------------ missing targets, 404 against 403 (C24)
TargetProjectUpdates == {[is_public |-> NoneVal, status |-> "active"]}
TargetMemberCreates == [user_id : {MaxUsers}, role : {"viewer"}]
TargetTaskCreates == {d \in TaskCreates : d.assignee_ids = {}}
TargetCalendarCreates == [is_public : {FALSE}]
TargetEventCreates == {d \in EventCreates : d.attendee_ids = <<>>}

TargetNext ==
    \/ \E d \in ConcProjectCreates : create_project(d, 1, FALSE)
    \/ \E p \in ProjectIds : \E u \in UserIds : get_project_by_id(p, u)
    \/ \E p \in ProjectIds : \E d \in TargetProjectUpdates :
          update_project(p, d, 1)
    \/ \E p \in ProjectIds : delete_project(p, 1)
    \/ \E p \in ProjectIds : \E d \in TargetMemberCreates :
          add_project_member(p, d, 1)
    \/ \E p \in ProjectIds : RemoveProjectMember(p, MaxUsers, 1)
    \/ \E d \in TargetTaskCreates : create_task(d, 1)
    \/ \E t \in TaskIds : \E u \in UserIds : get_task_by_id(t, u)
    \/ \E t \in TaskIds : \E d \in TaskUpdates : update_task(t, d, 1)
    \/ \E t \in TaskIds : delete_task(t, 1)
    \/ \E t \in TaskIds : assign_task(t, {MaxUsers}, 1)
    \/ \E d \in TargetCalendarCreates : create_calendar(d, 1)
    \/ \E d \in TargetEventCreates : create_event(d, 1)
    \/ \E e \in EventIds : \E u \in UserIds : get_event_by_id(e, u)
    \/ \E e \in EventIds : \E d \in EventUpdates : update_event(e, d, 1)
    \/ \E e \in EventIds : delete_event(e, 1)
    \/ \E e \in EventIds : add_event_attendees(e, <<MaxUsers>>, 1)
    \/ \E e \in EventIds : remove_event_attendee(e, MaxUsers, 1)

SpecTargets == ProjectInit /\ [][TargetNext]_vars

\* the operations that take the id of an existing resource, per type
ProjectTargetOps ==
    {"get_project_by_id", "update_project", "delete_project",
     "add_project_member", "remove_project_member"}
TaskTargetOps ==
    {"get_task_by_id", "update_task", "delete_task", "assign_task"}
EventTargetOps ==
    {"get_event_by_id", "update_event", "delete_event",
     "add_event_attendees", "remove_event_attendee"}

\* two calls in a row name a project (a task, an event) that does not
\* exist, and the second reports what the first reported
SameErrorForMissing ==
    /\ (/\ lastOp.op \in ProjectTargetOps
        /\ lastOp.project \notin DOMAIN projects
        /\ lastOp'.op \in ProjectTargetOps
        /\ lastOp'.project \notin DOMAIN projects')
          => lastOp'.result = lastOp.result
    /\ (/\ lastOp.op \in TaskTargetOps
        /\ lastOp.task \notin DOMAIN tasks
        /\ lastOp'.op \in TaskTargetOps
        /\ lastOp'.task \notin DOMAIN tasks')
          => lastOp'.result = lastOp.result
    /\ (/\ lastOp.op \in EventTargetOps
        /\ lastOp.event_before = NoneVal
        /\ lastOp'.op \in EventTargetOps
        /\ lastOp'.event_before = NoneVal)
          => lastOp'.result = lastOp.result

\* C24: for each resource type the order of the existence check and the
\* permission check is the same in every operation: for a target id that
\* does not exist, get, update and delete (and assign_task, add/remove
\* member, add/remove attendee) all report the same error kind, never
\* NotFoundError from one operation and AuthorizationError from another.
C24_SameErrorForMissing == [][SameErrorForMissing]_vars

\* ------------------------------------------------- task listing (C25)
\* services/task.py _get_accessible_projects: the ids of the public projects
\* and of the projects with a membership row of the user
TaskService_get_accessible_projects(user_id) ==
    {p \in DOMAIN projects : projects[p].is_public}
        \cup {m.project_id : m \in {x \in members : x.user_id = user_id}}

\* services/task.py list_tasks without search filters: the tasks whose
\* project is in the accessible set, computed once; every task when no user
\* id is given
list_tasks(user_id) ==
    LET accessible_projects == TaskService_get_accessible_projects(user_id) IN
    /\ lastOp' = [NoOp EXCEPT !.op = "list_tasks", !.user = user_id,
                  !.result = "ok",
                  !.listed = IF user_id # NoId
                             THEN {t \in DOMAIN tasks :
                                     tasks[t].project_id \in accessible_projects}
                             ELSE DOMAIN tasks]
    /\ UNCHANGED <<projects, members, memberSeq, tasks, assignments>>
    /\ UNCHANGED <<tokenVars, txns, calVars>>

ListNext ==
    \/ \E d \in ProjectCreates : \E u \in UserIds : create_project(d, u, FALSE)
    \/ \E p \in ProjectIds : \E d \in AccessMemberCreates : \E u \in UserIds :
          add_project_member(p, d, u)
    \/ \E d \in AccessTaskCreates : \E u \in UserIds : create_task(d, u)
    \/ \E u \in UserIds \cup {NoId} : list_tasks(u)

SpecList == ProjectInit /\ [][ListNext]_vars

\* C25: for every user u the accessible-project-id set that list_tasks
\* computes once per request equals the set of projects u has read access
\* to, so list_tasks(u) returns exactly the tasks of the projects u can
\* read: never a task of a project u cannot read, and none is missing.
C25_ListMatchesReadAccess ==
    (lastOp.op = "list_tasks" /\ lastOp.user # NoId) =>
        /\ TaskService_get_accessible_projects(lastOp.user)
              = {p \in DOMAIN projects : CanRead(lastOp.user, p)}
        /\ lastOp.listed
              = {t \in DOMAIN tasks : CanRead(lastOp.user, tasks[t].project_id)}

\* ------------------------------------------- calendar ownership (C26)
\* a calendar that exists before and after a step keeps its owner
OwnerKept ==
    \A c \in DOMAIN calendars \cap DOMAIN calendars' :
        calendars'[c].owner_id = calendars[c].owner_id

\* a calendar that a step creates is owned by the caller of create_calendar
OwnerFromCreate ==
    \A c \in DOMAIN calendars' \ DOMAIN calendars :
        /\ lastOp'.op = "create_calendar"
        /\ lastOp'.calendar = c
        /\ calendars'[c].owner_id = lastOp'.user

\* update_calendar or delete_calendar by someone who is not the owner is
\* refused and changes no calendar, event or attendee row
NonOwnerRefused ==
    (/\ lastOp'.op \in {"update_calendar", "delete_calendar"}
     /\ lastOp'.calendar \in DOMAIN calendars
     /\ calendars[lastOp'.calendar].owner_id # lastOp'.user)
        => /\ lastOp'.result = "AuthorizationError"
           /\ UNCHANGED calVars

\* C26: a calendar's owner never changes after creation: in every state
\* reachable by create_calendar, update_calendar, delete_calendar and the
\* event operations each existing calendar's owner_id is the owner it was
\* created with, and update_calendar or delete_calendar by a non-owner
\* changes nothing.
C26_OwnerImmutable ==
    [][OwnerKept /\ OwnerFromCreate /\ NonOwnerRefused]_vars

\* a user who is not the owner asked to update a public calendar that holds
\* an event and was refused
C26_Witness ==
    /\ lastOp.op = "update_calendar"
    /\ lastOp.calendar \in DOMAIN calendars
    /\ calendars[lastOp.calendar].owner_id # lastOp.user
    /\ calendars[lastOp.calendar].is_public
    /\ \E e \in DOMAIN events : events[e].calendar_id = lastOp.calendar
    /\ lastOp.result = "AuthorizationError"

\* --------------------------------------------- anonymous reads (C27)
\* services/project.py list_projects without search filters: public or
\* member projects for a user id, the public projects for none
list_projects(user_id) ==
    /\ lastOp' = [NoOp EXCEPT !.op = "list_projects", !.user = user_id,
                  !.result = "ok",
                  !.listed =
                     IF user_id # NoId
                     THEN {p \in DOMAIN projects :
                             \/ projects[p].is_public
                             \/ \E m \in members : /\ m.user_id = user_id
                                                   /\ m.project_id = p}
                     ELSE {p \in DOMAIN projects : projects[p].is_public}]
    /\ UNCHANGED <<projects, members, memberSeq, tasks, assignments>>
    /\ UNCHANGED <<tokenVars, txns, calVars>>

AnonymousNext ==
    \/ \E d \in ProjectCreates : \E u \in UserIds : create_project(d, u, FALSE)
    \/ \E d \in AccessTaskCreates : \E u \in UserIds : create_task(d, u)
    \/ \E p \in ProjectIds : \E u \in UserIds \cup {NoId} :
          get_project_by_id(p, u)
    \/ \E t \in TaskIds : \E u \in UserIds \cup {NoId} : get_task_by_id(t, u)
    \/ \E u \in UserIds \cup {NoId} : list_projects(u)

SpecAnonymous == ProjectInit /\ [][AnonymousNext]_vars

\* C27: a caller with no identity never reads a private project or a task
\* of a private project: get_project_by_id and get_task_by_id called
\* without a user id return the resource only if the project is public,
\* and list_projects without a user id returns only public projects.
C27_AnonymousReads ==
    lastOp.user = NoId =>
        /\ (lastOp.op = "get_project_by_id" /\ lastOp.result = "ok") =>
              projects[lastOp.project].is_public
        /\ (lastOp.op = "get_task_by_id" /\ lastOp.result = "ok") =>
              projects[tasks[lastOp.task].project_id].is_public
        /\ lastOp.op = "list_projects" =>
              \A p \in lastOp.listed : projects[p].is_public

\* --------------------------------- events on a private calendar (C28)
\* C28: create_event on a private calendar by a user who is not the
\* calendar's owner is rejected with AuthorizationError and creates no
\* event and no attendee rows; only the owner can add events to a private
\* calendar.
C28_PrivateCalendarCreate ==
    (/\ lastOp.op = "create_event"
     /\ Exists(lastOp.user)
     /\ lastOp.calendar \in DOMAIN calendars
     /\ ~calendars[lastOp.calendar].is_public
     /\ calendars[lastOp.calendar].owner_id # lastOp.user)
        => /\ lastOp.result = "AuthorizationError"
           /\ lastOp.event = NoId
           /\ attendees = lastOp.attendees_before

\* --------------------------------- route and service evaluators (C29)
EvaluatorNext ==
    \/ \E d \in ProjectCreates : \E u \in UserIds : create_project(d, u, FALSE)
    \/ \E p \in ProjectIds : \E d \in AccessMemberCreates : \E u \in UserIds :
          add_project_member(p, d, u)
    \/ \E d \in AccessTaskCreates : \E u \in UserIds : create_task(d, u)
    \/ \E t \in TaskIds : \E a \in SUBSET UserIds : \E u \in UserIds :
          assign_task(t, a, u)
    \/ \E p \in ProjectIds : \E u \in UserIds : CheckProjectAccess(p, u)
    \/ \E p \in ProjectIds : \E u \in UserIds : ProjectServiceCheckAccess(p, u)
    \/ \E t \in TaskIds : \E u \in UserIds : CheckTaskAccess(t, u)
    \/ \E t \in TaskIds : \E u \in UserIds : TaskServiceCheckTaskAccess(t, u)

SpecEvaluators == ProjectInit /\ [][EvaluatorNext]_vars

\* C29: the route-level and the service-level evaluators agree in every
\* reachable state: for every user and task TaskPermission.check_task_access
\* and TaskService._check_task_access return the same decision, and for
\* every user and project ProjectPermission.check_project_access and
\* ProjectService._check_project_access return the same decision.
C29_EvaluatorsAgree ==
    /\ lastOp.op = "ProjectPermission.check_project_access" =>
          lastOp.granted = ProjectService_check_project_access(lastOp.project,
                                                               lastOp.user)
    /\ lastOp.op = "ProjectService._check_project_access" =>
          lastOp.granted = ProjectPermission_check_project_access(
                               lastOp.project, lastOp.user)
    /\ lastOp.op = "TaskPermission.check_task_access" =>
          lastOp.granted = TaskService_check_task_access(lastOp.task,
                                                         lastOp.user)
    /\ lastOp.op = "TaskService._check_task_access" =>
          lastOp.granted = TaskPermission_check_task_access(lastOp.task,
                                                            lastOp.user)

\* ------------------------------------ concurrent attendee adds (C30)
\* add_event_attendees for one user id, as the steps of its transaction.
\* The call starts on worker w with _check_event_access and the SELECT of
\* the event.
BeginAttend(w, event_id, user_id, added_by) ==
    LET call == [Idle EXCEPT !.op = "add_event_attendees", !.pc = "lookup",
                             !.user = added_by, !.event = event_id,
                             !.target = user_id]
        refused == IF ~CalendarService_check_event_access(event_id, added_by)
                   THEN "AuthorizationError"
                   ELSE IF event_id \notin DOMAIN events THEN "NotFoundError"
                   ELSE "ok" IN
    /\ txns[w].pc = "idle"
    /\ attendeeSeq + InFlight({"add_event_attendees"}) < MaxAttendeeRows
    /\ IF refused = "ok"
       THEN /\ txns' = [txns EXCEPT ![w] = call]
            /\ UNCHANGED lastOp
       ELSE /\ lastOp' = [NoOp EXCEPT !.op = "add_event_attendees",
                                      !.result = refused]
            /\ UNCHANGED txns
    /\ UNCHANGED calVars
    /\ UNCHANGED <<tokenVars, projects, members, memberSeq, tasks,
                   assignments>>

\* _add_event_attendee: the SELECT of the user, the SELECT of an existing
\* row among the committed rows, then db.add and flush: the INSERT is sent,
\* the id is drawn from the sequence, and the row stays invisible to the
\* other sessions until the commit
AttendLookup(w) ==
    LET existing == AttendeeRows(txns[w].event, txns[w].target)
        attendee == [id |-> attendeeSeq + 1, event_id |-> txns[w].event,
                     user_id |-> txns[w].target,
                     response_status |-> "pending"] IN
    /\ txns[w].op = "add_event_attendees"
    /\ txns[w].pc = "lookup"
    /\ IF ~Exists(txns[w].target)
       THEN Finish(w, "NotFoundError") /\ UNCHANGED attendeeSeq
       ELSE IF Cardinality(existing) > 1
       THEN Finish(w, "MultipleResultsFound") /\ UNCHANGED attendeeSeq
       ELSE IF existing # {}
       THEN /\ txns' = [txns EXCEPT ![w].pc = "commit"]
            /\ UNCHANGED <<lastOp, attendeeSeq>>
       ELSE /\ txns' = [txns EXCEPT ![w].pc = "commit",
                                    ![w].row = Some(attendee)]
            /\ attendeeSeq' = attendeeSeq + 1
            /\ UNCHANGED lastOp
    /\ UNCHANGED <<calendars, calendarSeq, events, eventSeq, attendees>>
    /\ UNCHANGED <<tokenVars, projects, members, memberSeq, tasks,
                   assignments>>

\* db.commit(): the flushed row becomes visible.  event_attendees has no
\* unique constraint on (event_id, user_id), so nothing refuses the row.
AttendCommit(w) ==
    /\ txns[w].op = "add_event_attendees"
    /\ txns[w].pc = "commit"
    /\ attendees' = IF txns[w].row # NoneVal
                    THEN attendees \cup {txns[w].row[1]} ELSE attendees
    /\ Finish(w, "ok")
    /\ UNCHANGED <<calendars, calendarSeq, events, eventSeq, attendeeSeq>>
    /\ UNCHANGED <<tokenVars, projects, members, memberSeq, tasks,
                   assignments>>

AttendNext ==
    \/ \E d \in CalendarCreates : \E u \in UserIds : create_calendar(d, u)
    \/ \E d \in TargetEventCreates : \E u \in UserIds : create_event(d, u)
    \/ \E w \in Workers : \E e \in EventIds : \E t \in 1..(MaxUsers + 1) :
          \E u \in UserIds : BeginAttend(w, e, t, u)
    \/ \E w \in Workers : AttendLookup(w)
    \/ \E w \in Workers : AttendCommit(w)

SpecAttendConcurrent == ConcInit /\ [][AttendNext]_vars

\* C30: under any interleaving of two concurrent add_event_attendees
\* transactions that add the same user to the same event, at most one
\* EventAttendee row for that (event, user) pair exists afterwards: the
\* existence check and the insert cannot both pass in two transactions.
C30_OneAttendeeRowPerPair ==
    \A e \in EventIds : \A u \in UserIds :
        Cardinality(AttendeeRows(e, u)) <= 1

====
